---- MODULE Spec2Model ----
(***************************************************************************)
(* Model of the forecast and risk engines of current-rms-watcher:          *)
(*   - lib/forecastCalculations (src/unnamed/part_014)                     *)
(*   - lib/riskAssessment.ts                                               *)
(*   - pages/api/opportunities/[id]/risk (src/unnamed/part_002)            *)
(* Each subsystem has its own specification over its own variables; the    *)
(* variables of the other subsystems stay at their initial value.          *)
(***************************************************************************)
EXTENDS Integers, Sequences, FiniteSets, TLC

VARIABLES
    \* ---- forecast summary (calculateForecastSummary) ----
    opportunities,   \* the OpportunityWithForecast[] argument
    summary,         \* the ForecastSummary being accumulated
    fi,              \* number of list elements the for-of loop has processed
    \* ---- PATCH /api/opportunities/[id]/risk (the handler of part_002) ----
    credentials,     \* CURRENT_RMS_SUBDOMAIN and CURRENT_RMS_API_KEY are both set
    hpc,             \* where the handler is: idle, fetching, reading, done
    hreq,            \* the request as received (Null before any)
    riskData,        \* req.body, which the handler updates in place
    hsent,           \* the update request sent to Current RMS (Null: none)
    hfetch,          \* the answer of Current RMS once fetch resolved
    hres,            \* the response of the handler (Null: none yet)
    \* ---- risk levels of a score ----
    lscore,          \* the score, in hundredths
    lthresholds,     \* the ApprovalThresholds in use
    lout,            \* level, approval label and tier computed for lscore
    \* ---- risk settings cache (fetchRiskSettings) ----
    now,             \* Date.now(), in minutes
    cachedSettings,  \* module variable: Null or Some(RiskSettings)
    cacheTimestamp,  \* module variable, in minutes
    stored,          \* the risk_settings table: setting_value by setting_key
    saving,          \* where the POST handler of /api/settings/risk stands
    calls,           \* the fetchRiskSettings calls, by caller
    lastSuccess,     \* history: time of the last successful fetch since the
                     \* last clearRiskSettingsCache (Null: none)
    cacheStale,      \* history: the cache was written by a call whose request
                     \* was issued before the last clearRiskSettingsCache
    \* ---- enrichOpportunityWithForecast ----
    eopp,            \* the opportunity argument (a row as the database gives it)
    eforecast,       \* the forecast argument: Null or Some(ForecastMetadata)
    eout,            \* the OpportunityWithForecast returned (Null: not called)
    \* ---- the grouped views of the forecast ----
    vopps,           \* the OpportunityWithForecast[] the views are computed from
    groupByWeek,     \* the groupByWeek argument of calculateForecastTimeSeries
    byOwner,         \* result of calculateForecastByOwner (Null: not called)
    byCustomer,      \* result of calculateForecastByCustomer
    byProbabilityBand, \* result of calculateForecastByProbabilityBand
    timeSeries,      \* result of calculateForecastTimeSeries
    \* ---- POST /api/webhook and the event store ----
    wpc,             \* per request: idle, rules (executeRules pending), done
    wres,            \* per request: the status of the response (0: none yet)
    wevent,          \* per request: the handler's processedEvent (Null: none)
    events,          \* EventStore.events, the in-memory array
    storageFile,     \* /tmp/events.json: Null (no file) or Some(events)
    metrics,         \* what getMetrics returned last (Null: not called)
    \* ---- BusinessRulesEngine ----
    rules,           \* the Map of registered rules, in insertion order
    registrations,   \* number of registerRule calls since construction
    xpc,             \* executeRules: idle, awaiting, returned, threw
    xevent,          \* the event executeRules was called with (Null: none)
    xrules,          \* history: the registered rules when it was called
    applicableRules, \* the array getApplicableRules returned
    xi,              \* position of the for-of loop in applicableRules
    xpending,        \* ids of the actions started and not yet settled
    xlog,            \* history: ids of the actions started, in order
    \* ---- direct calls of the event store ----
    addCount,        \* number of events ever given to addEvent
    addedSince,      \* history: the events added since the last clearEvents,
                     \* newest first
    recent,          \* what getRecentEvents returned last (Null: not called)
    found,           \* what getEventById or getEventsByOpportunity returned
                     \* last (Null: not called)
    \* ---- opportunity sync (OpportunitySync) ----
    sync,            \* the local state of the sync run under way or ended
    syncMetadata,    \* the rows of table sync_metadata, row i has id i
    opportunitiesTable, \* ids of the rows of table opportunities
    lastWebhookAt,   \* ids of the rows whose last_webhook_at is set
    single           \* the syncOpportunity call (Null: none yet)

fvars == <<opportunities, summary, fi>>
hvars == <<credentials, hpc, hreq, riskData, hsent, hfetch, hres>>
lvars == <<lscore, lthresholds, lout>>
svars == <<now, cachedSettings, cacheTimestamp, stored, saving, calls, lastSuccess,
          cacheStale>>
evars == <<eopp, eforecast, eout>>
gvars == <<vopps, groupByWeek, byOwner, byCustomer, byProbabilityBand, timeSeries>>
wvars == <<wpc, wres, wevent, events, storageFile, metrics>>
rvars == <<rules, registrations, xpc, xevent, xrules, applicableRules, xi, xpending, xlog>>
qvars == <<addCount, addedSince, recent, found>>
yvars == <<sync, syncMetadata, opportunitiesTable, lastWebhookAt, single>>
zvars == <<rvars, qvars, yvars>>
xvars == <<evars, gvars, wvars, zvars>>

(***************************************************************************)
(* Optional values: null / undefined is the empty tuple, a present value   *)
(* v is <<v>>.                                                             *)
(***************************************************************************)
Null == <<>>
Some(v) == <<v>>
IsNull(o) == o = Null
Val(o) == o[1]

(***************************************************************************)
(* Bounds of the model.                                                    *)
(***************************************************************************)
MaxOpps == 2
\* a request body scores factors among the first MaxScored of the catalogue
MaxScored == 3
\* the largest score (in hundredths) whose level is computed
MaxScore == 600
\* the clock runs from 0 to MaxTime minutes
MaxTime == 5
\* number of callers of fetchRiskSettings
MaxCallers == 2
\* the grouped views are computed for up to MaxGrouped opportunities
MaxGrouped == 3


Digits == <<"0", "1", "2", "3", "4", "5", "6", "7", "8", "9">>
IsDigit(ch) == \E i \in 1..Len(Digits) : Digits[i] = ch
DigitValue(ch) == (CHOOSE i \in 1..Len(Digits) : Digits[i] = ch) - 1

\* the decimal digits of n >= 0
RECURSIVE DigitsOf(_)
DigitsOf(n) ==
    IF n < 10 THEN <<Digits[n + 1]>>
    ELSE Append(DigitsOf(n \div 10), Digits[(n % 10) + 1])


(***************************************************************************)
(* Numbers of the forecast code: IEEE 754 binary64 values, as JavaScript   *)
(* computes with them.  A natural number of any size is the sequence of    *)
(* its digits in base 2^15, lowest first, without leading zeros (Mp...).   *)
(* A Number is a record: k is "num", "Infinity" or "NaN"; a finite one is  *)
(* (-1)^neg * m * 2^e with m zero (e = 0) or odd, so that equal records    *)
(* are equal values (but for -0 and +0).                                   *)
(*                                                                         *)
(* Where a step of a computation is repeated digit by digit, the value a   *)
(* step hands on is named by a bound variable of a set of one element:     *)
(* CHOOSE r \in {F(y) : y \in {v}} : TRUE is F(v), with v computed once,   *)
(* before F.                                                               *)
(***************************************************************************)
MpBase == 2 ^ 15

Max(a, b) == IF a > b THEN a ELSE b
Min(a, b) == IF a < b THEN a ELSE b

\* the place of the top digit of a, counted from place i down, that is not
\* zero; 0 when there is none
RECURSIVE MpTop(_, _)
MpTop(a, i) == IF i = 0 \/ a[i] # 0 THEN i ELSE MpTop(a, i - 1)

\* a without its zero digits at the top
MpNorm(a) == SubSeq(a, 1, MpTop(a, Len(a)))

MpFromInt(n) ==
    MpNorm(<<n % MpBase, (n \div MpBase) % MpBase, n \div (MpBase * MpBase)>>)

MpDigitAt(a, i) == IF i >= 1 /\ i <= Len(a) THEN a[i] ELSE 0

\* the digits of a sum from its digit sums w, each at most 2^16 - 2: a carry
\* comes in where a lower digit sum overflows and every one between is at
\* least 2^15 - 1
MpCarried(w) ==
    LET carry(i) == \E j \in 1..(i - 1) :
                        /\ w[j] >= MpBase
                        /\ \A l \in (j + 1)..(i - 1) : w[l] >= MpBase - 1
    IN  SubSeq([i \in 1..(Len(w) + 1) |->
                   IF i = Len(w) + 1 THEN 1
                   ELSE (w[i] + (IF carry(i) THEN 1 ELSE 0)) % MpBase],
               1, IF carry(Len(w) + 1) THEN Len(w) + 1 ELSE Len(w))

\* a + b
MpAdd(a, b) ==
    MpCarried([i \in 1..Max(Len(a), Len(b)) |-> MpDigitAt(a, i) + MpDigitAt(b, i)])

\* the digits of a difference from its digit differences w, with the borrows
MpBorrowed(w) ==
    LET borrow(i) == \E j \in 1..(i - 1) :
                         /\ w[j] < 0
                         /\ \A l \in (j + 1)..(i - 1) : w[l] <= 0
    IN  MpNorm([i \in 1..Len(w) |->
                   (w[i] - (IF borrow(i) THEN 1 ELSE 0) + MpBase) % MpBase])

\* a - b for a >= b
MpSub(a, b) == MpBorrowed([i \in 1..Len(a) |-> a[i] - MpDigitAt(b, i)])

\* a > b for numbers of as many digits: the top digit in which they differ
\* is greater in a
MpGreater(a, b) ==
    \E i \in 1..Len(a) : a[i] > b[i] /\ \A j \in (i + 1)..Len(a) : a[j] = b[j]

\* -1, 0, 1 as a < b, a = b, a > b
MpCmp(a, b) ==
    IF Len(a) > Len(b) THEN 1
    ELSE IF Len(a) < Len(b) THEN -1
    ELSE IF MpGreater(a, b) THEN 1
    ELSE IF MpGreater(b, a) THEN -1
    ELSE 0

\* the number whose digit sums are the low halves of w plus, one digit up,
\* its high halves
MpFromColumns(w) ==
    MpNorm(MpAdd([i \in 1..Len(w) |-> w[i] % MpBase] \o <<0>>,
                 <<0>> \o [i \in 1..Len(w) |-> w[i] \div MpBase]))

\* a * d for 0 <= d <= 2^15
MpMulSmall(a, d) == MpFromColumns([i \in 1..Len(a) |-> a[i] * d])

MpShlLimbs(a, n) == IF a = <<>> THEN a ELSE [i \in 1..n |-> 0] \o a

\* the sum over i <= j <= to of the low (part = 0) or high (part = 1) halves
\* of the products a[j] * b[k + 1 - j]
RECURSIVE MpColumn(_, _, _, _, _, _)
MpColumn(a, b, k, i, to, part) ==
    IF i > to THEN 0
    ELSE IF i = to
    THEN (IF part = 0 THEN (a[i] * b[k + 1 - i]) % MpBase
          ELSE (a[i] * b[k + 1 - i]) \div MpBase)
    ELSE MpColumn(a, b, k, i, (i + to) \div 2, part)
             + MpColumn(a, b, k, (i + to) \div 2 + 1, to, part)

\* column k of a * b, low or high halves (nothing for k < 1)
MpColumnSum(a, b, k, part) ==
    IF k < 1 THEN 0
    ELSE MpColumn(a, b, k, Max(k + 1 - Len(b), 1), Min(Len(a), k), part)

\* a * b: column k of the product holds the low halves of the digit products of
\* column k and the high halves of those of column k - 1
MpMul(a, b) ==
    IF a = <<>> \/ b = <<>> THEN <<>>
    ELSE MpFromColumns([k \in 1..(Len(a) + Len(b)) |->
                           MpColumnSum(a, b, k, 0) + MpColumnSum(a, b, k - 1, 1)])

\* One step of a division by d, 0 < d <= 2^15: the quotient so far with one
\* more digit below, and the remainder, when the digit next of the dividend
\* is taken in
MpDivSmallDigit(sofar, t, d) == [q |-> <<t \div d>> \o sofar.q, r |-> t % d]

\* quotient and remainder of a by d: the digits of a from i down are still
\* to come
RECURSIVE MpDivSmallAt(_, _, _, _)
MpDivSmallAt(a, d, i, sofar) ==
    IF i = 0 THEN sofar
    ELSE CHOOSE x \in {MpDivSmallAt(a, d, i - 1, next) :
                          next \in {MpDivSmallDigit(sofar, sofar.r * MpBase + a[i], d)}} : TRUE

\* a quotient and a remainder as numbers
MpQuotient(x) == [q |-> MpNorm(x.q), r |-> MpFromInt(x.r)]

MpDivSmall(a, d) == MpQuotient(MpDivSmallAt(a, d, Len(a), [q |-> <<>>, r |-> 0]))

\* a * 2^n: the digits move up n \div 15 places, and each takes the top
\* n % 15 bits of the digit below
MpShl(a, n) ==
    MpShlLimbs(MpNorm([i \in 1..(Len(a) + 1) |->
                          ((MpDigitAt(a, i) * (2 ^ (n % 15))) % MpBase)
                              + (MpDigitAt(a, i - 1) \div (2 ^ (15 - (n % 15))))]),
               n \div 15)

\* floor(a / 2^n)
MpShr(a, n) ==
    MpNorm([i \in 1..(Len(a) - (n \div 15)) |->
               (a[i + (n \div 15)] \div (2 ^ (n % 15)))
                   + ((MpDigitAt(a, i + (n \div 15) + 1) % (2 ^ (n % 15)))
                          * (2 ^ (15 - (n % 15))))])

\* bit i of a, bit 0 the lowest
MpBit(a, i) ==
    IF i \div 15 + 1 > Len(a) THEN 0
    ELSE (a[i \div 15 + 1] \div (2 ^ (i % 15))) % 2

\* the n lowest bits of a are zero
MpLowZero(a, n) ==
    /\ \A i \in 1..(n \div 15) : i > Len(a) \/ a[i] = 0
    /\ n \div 15 + 1 > Len(a) \/ a[n \div 15 + 1] % (2 ^ (n % 15)) = 0

RECURSIVE BitLength(_)
BitLength(n) == IF n = 0 THEN 0 ELSE 1 + BitLength(n \div 2)

\* number of bits of a
MpBits(a) == IF a = <<>> THEN 0 ELSE (Len(a) - 1) * 15 + BitLength(a[Len(a)])

RECURSIVE TrailingZeros(_)
TrailingZeros(n) == IF n % 2 = 1 THEN 0 ELSE 1 + TrailingZeros(n \div 2)

\* number of zero bits at the low end of a # 0, of whose digits the lowest
\* low are zero
MpTrailingZerosAbove(a, low) == 15 * low + TrailingZeros(a[low + 1])

MpTrailingZeros(a) ==
    MpTrailingZerosAbove(a, Cardinality({i \in 1..Len(a) : \A j \in 1..i : a[j] = 0}))

\* 2 * a + bit
MpDoublePlus(a, bit) == MpAdd(MpMulSmall(a, 2), MpFromInt(bit))

\* the largest q <= guess with b * q <= r
RECURSIVE MpQuotientDigit(_, _, _)
MpQuotientDigit(r, b, guess) ==
    IF MpCmp(MpMulSmall(b, guess), r) > 0
    THEN MpQuotientDigit(r, b, guess - 1)
    ELSE guess

\* a first guess of the quotient digit of r by b, from the two top digits of
\* r (as far as r is as long as b)
MpGuess(r, b) ==
    Min(MpBase - 1,
        (MpDigitAt(r, Len(b) + 1) * MpBase + MpDigitAt(r, Len(b))) \div b[Len(b)])

\* One step of the long division by b: the quotient so far with the digit
\* below, and what is left of the remainder r
MpDivDigit(sofar, r, b, digit) ==
    [q |-> <<digit>> \o sofar.q, r |-> MpSub(r, MpMulSmall(b, digit))]

\* the step for the remainder r with the digit next of the dividend taken in
MpDivNext(sofar, r, b) == MpDivDigit(sofar, r, b, MpQuotientDigit(r, b, MpGuess(r, b)))

\* long division by b of two digits or more, its top digit 2^14 or more:
\* the digits of a from i down are still to come, sofar holds the quotient
\* and the remainder (less than b) of the digits above
RECURSIVE MpDivStep(_, _, _, _)
MpDivStep(a, b, i, sofar) ==
    IF i = 0 THEN sofar
    ELSE CHOOSE x \in {MpDivStep(a, b, i - 1, next) :
                          next \in {MpDivNext(sofar, MpNorm(<<a[i]>> \o sofar.r), b)}} : TRUE

\* the quotient and remainder of a division that was scaled by 2^s
MpUnscaled(d, s) == [q |-> MpNorm(d.q), r |-> MpShr(d.r, s)]

\* a by b, both scaled so that the top digit of b is 2^14 or more
MpDivLong(a, b) ==
    MpDivStep(a, b, Len(a) - Len(b) + 1,
              [q |-> <<>>, r |-> MpNorm(SubSeq(a, Len(a) - Len(b) + 2, Len(a)))])

\* quotient and remainder of a by b # 0
MpDivMod(a, b) ==
    IF MpCmp(a, b) < 0 THEN [q |-> <<>>, r |-> a]
    ELSE IF Len(b) = 1 THEN MpDivSmall(a, b[1])
    ELSE MpUnscaled(MpDivLong(MpShl(a, 15 - BitLength(b[Len(b)])),
                              MpShl(b, 15 - BitLength(b[Len(b)]))),
                    15 - BitLength(b[Len(b)]))

\* h * h * d
MpSquareTimes(h, d) == MpMulSmall(MpMul(h, h), d)

RECURSIVE MpPow10(_)
MpPow10(n) ==
    IF n < 5 THEN MpFromInt(10 ^ n)
    ELSE CHOOSE p \in {MpSquareTimes(h, IF n % 2 = 0 THEN 1 ELSE 10) :
                          h \in {MpPow10(n \div 2)}} : TRUE

NumNaN == [k |-> "NaN", neg |-> FALSE, m |-> <<>>, e |-> 0]
NumInfinity(neg) == [k |-> "Infinity", neg |-> neg, m |-> <<>>, e |-> 0]
NumZero(neg) == [k |-> "num", neg |-> neg, m |-> <<>>, e |-> 0]

IsNaN(x) == x.k = "NaN"
IsZero(x) == x.k = "num" /\ x.m = <<>>

\* the Number (-1)^neg * m * 2^(e - t) for m # 0 with t zero bits at its end
NumOdd(neg, m, e, t) == [k |-> "num", neg |-> neg, m |-> MpShr(m, t), e |-> e + t]

\* the Number of value (-1)^neg * m * 2^e, when m has at most 53 bits and
\* e >= -1074: Infinity from 2^1024 on
NumExact(neg, m, e) ==
    IF m = <<>> THEN NumZero(neg)
    ELSE IF MpBits(m) + e > 1024 THEN NumInfinity(neg)
    ELSE NumOdd(neg, m, e, MpTrailingZeros(m))

\* floor(m / 2^s) rounded up when the bits cut off are more than half, or
\* half with the quotient q odd (ties to even)
MpRounded(m, s, q) ==
    IF MpBit(m, s - 1) = 1 /\ (~MpLowZero(m, s - 1) \/ MpBit(q, 0) = 1)
    THEN MpAdd(q, <<1>>) ELSE q

\* (-1)^neg * m * 2^e with the s lowest bits of m rounded away
NumRoundBy(neg, m, e, s) ==
    IF s <= 0 THEN NumExact(neg, m, e)
    ELSE NumExact(neg, MpRounded(m, s, MpShr(m, s)), e + s)

\* (-1)^neg * m * 2^e rounded to the nearest Number, ties to even: to 53
\* bits, or fewer where the steps are 2^-1074
NumRound(neg, m, e) == NumRoundBy(neg, m, e, Max(MpBits(m) - 53, (-1074) - e))

\* the Number nearest to (-1)^neg * (q + r / b) * 2^e for the quotient and
\* remainder d: one more bit tells whether there is a remainder
NumRoundQuotient(neg, d, e) ==
    NumRound(neg, MpDoublePlus(d.q, IF d.r = <<>> THEN 0 ELSE 1), e - 1)

\* (-1)^neg * (a / b) * 2^e with a scaled by 2^s
NumRatioAt(neg, a, b, e, s) == NumRoundQuotient(neg, MpDivMod(MpShl(a, s), b), e - s)

\* (-1)^neg * (a / b) * 2^e rounded to the nearest Number, b # 0: the
\* quotient is taken to 55 bits or more
NumRatio(neg, a, b, e) ==
    IF a = <<>> THEN NumZero(neg)
    ELSE NumRatioAt(neg, a, b, e, Max(55 + MpBits(b) - MpBits(a), 0))

\* the Number of an integer of the model
NumFromInt(n) == NumRound(n < 0, MpFromInt(IF n < 0 THEN -n ELSE n), 0)

\* -x
NumNeg(x) == IF IsNaN(x) THEN x ELSE [x EXCEPT !.neg = ~@]

\* the sum of (-1)^xneg * ax * 2^e and (-1)^yneg * ay * 2^e, c comparing ax
\* with ay: opposite equal numbers add up to +0
NumAddAligned(xneg, ax, yneg, ay, e, c) ==
    NumRound(IF xneg = yneg THEN xneg ELSE IF c = 0 THEN FALSE
             ELSE IF c > 0 THEN xneg ELSE yneg,
             IF xneg = yneg THEN MpAdd(ax, ay)
             ELSE IF c > 0 THEN MpSub(ax, ay) ELSE MpSub(ay, ax),
             e)

\* x + y for finite nonzero x and y, with their significands at exponent e
NumAddAt(x, ax, y, ay, e) == NumAddAligned(x.neg, ax, y.neg, ay, e, MpCmp(ax, ay))

\* x + y
NumAdd(x, y) ==
    IF IsNaN(x) \/ IsNaN(y) THEN NumNaN
    ELSE IF x.k = "Infinity"
    THEN (IF y.k = "Infinity" /\ y.neg # x.neg THEN NumNaN ELSE x)
    ELSE IF y.k = "Infinity" THEN y
    ELSE IF x.m = <<>> THEN (IF y.m = <<>> THEN NumZero(x.neg /\ y.neg) ELSE y)
    ELSE IF y.m = <<>> THEN x
    \* an addend below the 60th bit of the other changes nothing
    ELSE IF x.e + MpBits(x.m) > y.e + MpBits(y.m) + 60 THEN x
    ELSE IF y.e + MpBits(y.m) > x.e + MpBits(x.m) + 60 THEN y
    ELSE NumAddAt(x, MpShl(x.m, x.e - Min(x.e, y.e)),
                  y, MpShl(y.m, y.e - Min(x.e, y.e)), Min(x.e, y.e))

\* x - y
NumSub(x, y) == NumAdd(x, NumNeg(y))

\* x * y
NumMul(x, y) ==
    IF IsNaN(x) \/ IsNaN(y) THEN NumNaN
    ELSE IF x.k = "Infinity" \/ y.k = "Infinity"
    THEN (IF IsZero(x) \/ IsZero(y) THEN NumNaN ELSE NumInfinity(x.neg # y.neg))
    ELSE NumRound(x.neg # y.neg, MpMul(x.m, y.m), x.e + y.e)

\* x / y
NumDiv(x, y) ==
    IF IsNaN(x) \/ IsNaN(y) THEN NumNaN
    ELSE IF x.k = "Infinity"
    THEN (IF y.k = "Infinity" THEN NumNaN ELSE NumInfinity(x.neg # y.neg))
    ELSE IF y.k = "Infinity" THEN NumZero(x.neg # y.neg)
    ELSE IF y.m = <<>>
    THEN (IF x.m = <<>> THEN NumNaN ELSE NumInfinity(x.neg # y.neg))
    ELSE NumRatio(x.neg # y.neg, x.m, y.m, x.e - y.e)

\* x === y
NumEq(x, y) ==
    /\ ~IsNaN(x)
    /\ ~IsNaN(y)
    /\ (IsZero(x) /\ IsZero(y)) \/ x = y

\* x < 0
IsNegative(x) == ~IsNaN(x) /\ ~IsZero(x) /\ x.neg

\* x < y
NumLess(x, y) ==
    /\ ~IsNaN(x)
    /\ ~IsNaN(y)
    /\ x # y
    /\ IsNegative(NumSub(x, y))

\* x <= y
NumLeq(x, y) == NumLess(x, y) \/ NumEq(x, y)

\* x is truthy: neither NaN nor a zero
NumTruthy(x) == ~IsNaN(x) /\ ~IsZero(x)

(***************************************************************************)
(* parseFloat and String(number), as ECMAScript defines them              *)
(***************************************************************************)

\* A string is the sequence of its characters (its UTF-16 code units). A
\* printable character of ASCII is written as itself, "4" or " ", and TAB,
\* LF, FF and CR by their escapes "\t", "\n", "\f" and "\r"; every other
\* character is written by its code point in four hexadecimal digits,
\* capitals: "U+000B" is the vertical tab, "U+00A0" the no-break space,
\* "U+00E9" e with an acute accent. A character written so is one element of
\* the sequence, unlike the six characters <<"U", "+", "0", "0", "E", "9">>.

\* Unicode category Zs (space separators), the space itself left out
SpaceSeparators ==
    {"U+00A0", "U+1680", "U+2000", "U+2001", "U+2002", "U+2003", "U+2004", "U+2005", "U+2006",
     "U+2007", "U+2008", "U+2009", "U+200A", "U+202F", "U+205F", "U+3000"}

\* StrWhiteSpaceChar, the white space parseFloat skips: WhiteSpace (TAB, VT,
\* FF, U+FEFF and the space separators, the space among them) and
\* LineTerminator (LF, CR, U+2028, U+2029); 25 characters
WhiteSpace ==
    {"\t", "U+000B", "\f", "U+FEFF", " "} \cup SpaceSeparators \cup {"\n", "\r", "U+2028", "U+2029"}

RECURSIVE SkipWhiteSpace(_)
SkipWhiteSpace(chars) ==
    IF chars # <<>> /\ Head(chars) \in WhiteSpace
    THEN SkipWhiteSpace(Tail(chars)) ELSE chars

\* number of digits chars has from position i on
RECURSIVE DigitsFrom(_, _)
DigitsFrom(chars, i) ==
    IF i <= Len(chars) /\ IsDigit(chars[i]) THEN 1 + DigitsFrom(chars, i + 1) ELSE 0

\* number of digits chars starts with
LeadingDigits(chars) == DigitsFrom(chars, 1)

\* chars has one of the characters of set at position i
HasCharAt(chars, i, set) == i <= Len(chars) /\ chars[i] \in set

RECURSIVE StripLeadingZeros(_)
StripLeadingZeros(chars) ==
    IF chars # <<>> /\ Head(chars) = "0" THEN StripLeadingZeros(Tail(chars)) ELSE chars

\* the natural number a string of digits denotes: that of its first half,
\* times the power of ten of the length of the rest, plus that of the rest
RECURSIVE MpFromDigits(_)
MpFromDigits(chars) ==
    IF chars = <<>> THEN <<>>
    ELSE IF Len(chars) = 1 THEN MpFromInt(DigitValue(chars[1]))
    ELSE MpAdd(MpMul(MpFromDigits(SubSeq(chars, 1, Len(chars) \div 2)),
                     MpPow10(Len(chars) - Len(chars) \div 2)),
               MpFromDigits(SubSeq(chars, Len(chars) \div 2 + 1, Len(chars))))

\* the same as an integer of the model, 100000 for anything larger
RECURSIVE SmallFromDigits(_, _)
SmallFromDigits(chars, acc) ==
    IF chars = <<>> THEN acc
    ELSE SmallFromDigits(Tail(chars), Min(100000, acc * 10 + DigitValue(Head(chars))))

StartsWith(chars, word) ==
    Len(chars) >= Len(word) /\ SubSeq(chars, 1, Len(word)) = word

\* m * 10^p rounded to the nearest Number, pow being 10^|p|
NumScaled(neg, m, p, pow) ==
    IF p >= 0 THEN NumRound(neg, MpMul(m, pow), 0)
    ELSE NumRatio(neg, m, pow, 0)

\* m * 10^p rounded to the nearest Number
NumTimesPow10(neg, m, p) == NumScaled(neg, m, p, MpPow10(IF p >= 0 THEN p ELSE -p))

\* the Number nearest to significant * 10^p, a numeral without leading
\* zeros: beyond 10^310 it is Infinity, below 10^-330 zero
NumFromSignificant(neg, significant, p) ==
    IF significant = <<>> THEN NumZero(neg)
    ELSE IF Len(significant) + p > 310 THEN NumInfinity(neg)
    ELSE IF Len(significant) + p < -330 THEN NumZero(neg)
    ELSE NumTimesPow10(neg, MpFromDigits(significant), p)

\* the Number nearest to the decimal numeral digits * 10^p
NumFromDecimal(neg, digits, p) == NumFromSignificant(neg, StripLeadingZeros(digits), p)

\* the parts of a literal of u: ni digits, a dot when hasDot, nf digits, and
\* when ne > 0 an exponent part of ne digits that start at position exp
LiteralParts(u, ni, hasDot, nf, exp, ne) ==
    [ ok |-> ni > 0 \/ nf > 0,
      digits |-> SubSeq(u, 1, ni)
                     \o (IF hasDot THEN SubSeq(u, ni + 2, ni + 1 + nf) ELSE <<>>),
      p |-> (IF ne = 0 THEN 0
             ELSE IF u[exp - 1] = "-"
             THEN -SmallFromDigits(SubSeq(u, exp, exp + ne - 1), 0)
             ELSE SmallFromDigits(SubSeq(u, exp, exp + ne - 1), 0)) - nf,
      rest |-> IF ne > 0 THEN SubSeq(u, exp + ne, Len(u))
               ELSE SubSeq(u, ni + (IF hasDot THEN nf + 2 ELSE 1), Len(u)) ]

\* the exponent part of a literal whose digits and fraction end at position
\* end: an e or E and an optional sign; it counts only when it has digits
LiteralExponent(u, ni, hasDot, nf, exp) ==
    LiteralParts(u, ni, hasDot, nf, exp, IF exp = 0 THEN 0 ELSE DigitsFrom(u, exp))

\* where the digits of the exponent part start, 0 when there is no e or E
\* after position end
ExponentStart(u, end) ==
    IF ~HasCharAt(u, end + 1, {"e", "E"}) THEN 0
    ELSE IF HasCharAt(u, end + 2, {"+", "-"}) THEN end + 3
    ELSE end + 2

LiteralFraction(u, ni, hasDot, nf) ==
    LiteralExponent(u, ni, hasDot, nf,
                    ExponentStart(u, ni + (IF hasDot THEN nf + 1 ELSE 0)))

LiteralDot(u, ni, hasDot) ==
    LiteralFraction(u, ni, hasDot, IF hasDot THEN DigitsFrom(u, ni + 2) ELSE 0)

LiteralDigits(u, ni) == LiteralDot(u, ni, HasCharAt(u, ni + 1, {"."}))

\* the longest prefix of u that is an unsigned StrDecimalLiteral: whether
\* there is one, its digits, the power of ten they are scaled by, and what
\* follows it in u (an exponent part counts only when it has digits)
StrDecimalLiteral(u) == LiteralDigits(u, LeadingDigits(u))

InfinityWord == <<"I", "n", "f", "i", "n", "i", "t", "y">>

\* the Number of a literal, NaN when there is none
NumOfLiteral(neg, lit) ==
    IF ~lit.ok THEN NumNaN ELSE NumFromDecimal(neg, lit.digits, lit.p)

\* the Number of an unsigned numeral at the start of u, with the sign read
ParseUnsigned(neg, u) ==
    IF StartsWith(u, InfinityWord) THEN NumInfinity(neg)
    ELSE NumOfLiteral(neg, StrDecimalLiteral(u))

\* the Number of a numeral at the start of t, after its sign if it has one
ParseSigned(t) ==
    ParseUnsigned(HasCharAt(t, 1, {"-"}),
                  IF HasCharAt(t, 1, {"+", "-"}) THEN Tail(t) ELSE t)

\* parseFloat: the Number of the longest prefix of the trimmed string that
\* is a StrDecimalLiteral, NaN when there is none
parseFloat(chars) == ParseSigned(SkipWhiteSpace(chars))

\* the decimal digits of a natural number, "" for 0
RECURSIVE MpDigits(_)
RECURSIVE MpDigitsOf(_)
MpDigits(a) == IF a = <<>> THEN <<>> ELSE MpDigitsOf(MpDivSmall(a, 10))

\* the digits of 10 * d.q + d.r
MpDigitsOf(d) == Append(MpDigits(d.q), Digits[MpDigitAt(d.r, 1) + 1])

RECURSIVE StripTrailingZeros(_)
StripTrailingZeros(chars) ==
    IF chars # <<>> /\ chars[Len(chars)] = "0"
    THEN StripTrailingZeros(SubSeq(chars, 1, Len(chars) - 1)) ELSE chars

\* num / den >= 10^p, pow being 10^|p|
AtLeastTimes(num, den, p, pow) ==
    MpCmp(IF p >= 0 THEN num ELSE MpMul(num, pow),
          IF p >= 0 THEN MpMul(den, pow) ELSE den) >= 0

\* num / den >= 10^p
AtLeastPow10(num, den, p) ==
    AtLeastTimes(num, den, p, MpPow10(IF p >= 0 THEN p ELSE -p))

\* the n with 10^(n-1) <= x < 10^n from a guess that is at most one off,
\* reached[p] telling whether x >= 10^p
ExponentNear(guess, reached) ==
    IF reached[guess] THEN guess + 1
    ELSE IF reached[guess - 1] THEN guess
    ELSE guess - 1

\* the n with 10^(n-1) <= num / den < 10^n, for a value with top bit 2^t
DecimalExponentNear(num, den, guess) ==
    ExponentNear(guess, [p \in {guess - 1, guess} |-> AtLeastPow10(num, den, p)])

DecimalExponent(num, den, t) ==
    DecimalExponentNear(num, den, (t * 30103) \div 100000 + 1)

\* the numeral of k digits to pick for x, d being quotient and remainder of
\* x by 10^(n-k), half comparing the remainder with a half, belowIsX and
\* aboveIsX telling of the numeral below x and of the one above whether it
\* is a numeral of x: the closer one when both are, the even one in a tie;
\* none when neither is
PickDigits(d, half, belowIsX, aboveIsX) ==
    IF d.r = <<>> THEN Some(d.q)
    ELSE IF belowIsX /\ aboveIsX
    THEN Some(IF half < 0 \/ (half = 0 /\ MpBit(d.q, 0) = 0) THEN d.q
              ELSE MpAdd(d.q, <<1>>))
    ELSE IF belowIsX THEN Some(d.q)
    ELSE IF aboveIsX THEN Some(MpAdd(d.q, <<1>>))
    ELSE Null

\* with the quotient and remainder d of x / 10^(n-k), scale the divisor:
\* the numeral of k digits for x, Null when there is none
DigitsOf10(x, n, k, scale, d) ==
    PickDigits(d, MpCmp(MpMulSmall(d.r, 2), scale),
               NumTimesPow10(FALSE, d.q, n - k) = x,
               NumTimesPow10(FALSE, MpAdd(d.q, <<1>>), n - k) = x)

\* with pow = 10^|n-k|: x / 10^(n-k) is (num * pow) / den or num / (den * pow)
DigitsScaled(x, num, den, n, k, pow) ==
    CHOOSE s \in {DigitsOf10(x, n, k, scale,
                              MpDivMod(IF n - k >= 0 THEN num ELSE MpMul(num, pow), scale)) :
                     scale \in {IF n - k >= 0 THEN MpMul(den, pow) ELSE den}} : TRUE

\* the numeral s * 10^(n-k) of k digits that is a numeral of x = num / den,
\* the closest to x when two are; Null when none is
DigitsAt(x, num, den, n, k) ==
    CHOOSE s \in {DigitsScaled(x, num, den, n, k, pow) :
                     pow \in {MpPow10(IF n - k >= 0 THEN n - k ELSE k - n)}} : TRUE

\* the fewest digits, from k on, that x has a numeral of
RECURSIVE ShortestLength(_, _, _, _, _)
ShortestLength(x, num, den, n, k) ==
    IF ~IsNull(DigitsAt(x, num, den, n, k)) THEN k
    ELSE ShortestLength(x, num, den, n, k + 1)

ShortestOfLength(x, num, den, n, k) == [s |-> Val(DigitsAt(x, num, den, n, k)), k |-> k]

\* Number::toString, step 5: the fewest digits k (from k on) whose numeral
\* s * 10^(n-k) is a numeral of x = num / den, the closest to x when two of
\* k digits are; here n is for 10^(n-1) <= x < 10^n. The result is s and k
\* (s is 10^k when the numeral is 10^n).
ShortestDigits(x, num, den, n, k) ==
    ShortestOfLength(x, num, den, n, ShortestLength(x, num, den, n, k))

Zeros(n) == [i \in 1..n |-> "0"]

\* the exponent part of a numeral in scientific notation
ExponentPart(e) == <<"e", IF e < 0 THEN "-" ELSE "+">> \o DigitsOf(IF e < 0 THEN -e ELSE e)

\* Number::toString, steps 6 to 10: the numeral of digits * 10^(n - k)
FormatDigits(digits, n) ==
    IF Len(digits) <= n /\ n <= 21 THEN digits \o Zeros(n - Len(digits))
    ELSE IF 0 < n /\ n <= 21
    THEN SubSeq(digits, 1, n) \o <<".">> \o SubSeq(digits, n + 1, Len(digits))
    ELSE IF -6 < n /\ n <= 0
    THEN <<"0", ".">> \o Zeros(-n) \o digits
    ELSE IF Len(digits) = 1 THEN digits \o ExponentPart(n - 1)
    ELSE <<digits[1], ".">> \o SubSeq(digits, 2, Len(digits)) \o ExponentPart(n - 1)

\* the numeral of s * 10^(n - k), s the digits of a number of k digits or,
\* when it is 10^k, of k + 1
FormatShortest(s, n, k) == FormatDigits(StripTrailingZeros(s), n + Len(s) - k)

FormatPicked(shortest, n) == FormatShortest(MpDigits(shortest.s), n, shortest.k)

\* Number::toString of num / den = x with 10^(n-1) <= x < 10^n
FractionToStringAt(x, num, den, n) == FormatPicked(ShortestDigits(x, num, den, n, 1), n)

FractionToString(x, num, den) ==
    FractionToStringAt(x, num, den, DecimalExponent(num, den, x.e + MpBits(x.m) - 1))

\* Number::toString of a finite x > 0
PositiveToString(x) ==
    FractionToString(x, IF x.e >= 0 THEN MpShl(x.m, x.e) ELSE x.m,
                     IF x.e >= 0 THEN <<1>> ELSE MpShl(<<1>>, -x.e))

\* String(x) of a Number
NumberToString(x) ==
    IF IsNaN(x) THEN <<"N", "a", "N">>
    ELSE IF x.k = "Infinity"
    THEN (IF x.neg THEN <<"-">> ELSE <<>>) \o InfinityWord
    ELSE IF IsZero(x) THEN <<"0">>
    ELSE (IF x.neg THEN <<"-">> ELSE <<>>) \o PositiveToString([x EXCEPT !.neg = FALSE])

(***************************************************************************)
(* src/unnamed/part_014: forecast calculations                             *)
(***************************************************************************)

(* A money field of a row is null / undefined (Null), a number (Some(x), x *)
(* a Number) or a string: Str(chars), chars the sequence of its            *)
(* characters, each written as parseFloat above reads it.                  *)
Str(chars) == <<"string", chars>>
IsString(raw) == Len(raw) = 2
Chars(raw) == raw[2]

\* String(v): "null" for null / undefined ("undefined" reads the same to
\* parseFloat), Number::toString of a number, a string itself
String(raw) ==
    IF IsNull(raw) THEN <<"n", "u", "l", "l">>
    ELSE IF IsString(raw) THEN Chars(raw)
    ELSE NumberToString(Val(raw))

\* x || 0 : NaN, 0 and -0 become 0
OrZero(x) == IF NumTruthy(x) THEN x ELSE NumZero(FALSE)

\* parseFloat(String(v)) || 0
ParseMoney(raw) == OrZero(parseFloat(String(raw)))

\* the arguments are null / undefined or numbers
calculateBaseProfit(chargeTotal, provisionalCostTotal) ==
    NumSub(ParseMoney(chargeTotal), ParseMoney(provisionalCostTotal))

\* a margin that divides whatever the revenue is
calculateMarginUnguarded(profit, revenue) == NumDiv(profit, revenue)

calculateMargin(profit, revenue) ==
    IF NumEq(revenue, NumZero(FALSE)) THEN NumZero(FALSE)
    ELSE NumDiv(profit, revenue)

\* an override test by truthiness: an override of 0 is ignored
getEffectiveRevenueTruthy(chargeTotal, revenueOverride) ==
    IF ~IsNull(revenueOverride) /\ NumTruthy(Val(revenueOverride))
    THEN Val(revenueOverride)
    ELSE ParseMoney(chargeTotal)

getEffectiveRevenue(chargeTotal, revenueOverride) ==
    IF ~IsNull(revenueOverride) THEN Val(revenueOverride)
    ELSE ParseMoney(chargeTotal)

getEffectiveProfit(baseProfit, profitOverride) ==
    IF ~IsNull(profitOverride) THEN Val(profitOverride) ELSE baseProfit

\* a weighting that takes the probability as a fraction of 1
calculateWeightedValueUnscaled(value, probability) == NumMul(value, probability)

\* value * (probability / 100)
calculateWeightedValue(value, probability) ==
    NumMul(value, NumDiv(probability, NumFromInt(100)))

\* lines 96-130: the margin, the weighted values and the row returned, from
\* the constants of lines 90-106
EnrichedRow(opportunity, forecast, chargeTotal, provisionalCostTotal, predictedCostTotal, actualCostTotal, baseProfit, effectiveRevenue, effectiveProfit, probability) ==
    [ organisation_name |-> opportunity.organisation_name,
      owner_name |-> opportunity.owner_name,
      starts_at |-> opportunity.starts_at,
      charge_total |-> chargeTotal,
      provisional_cost_total |-> provisionalCostTotal,
      predicted_cost_total |-> predictedCostTotal,
      actual_cost_total |-> actualCostTotal,
      base_profit |-> baseProfit,
      base_margin |-> calculateMargin(baseProfit, chargeTotal),
      forecast |-> forecast,
      effective_revenue |-> effectiveRevenue,
      effective_profit |-> effectiveProfit,
      weighted_revenue |-> calculateWeightedValue(effectiveRevenue, probability),
      weighted_profit |-> calculateWeightedValue(effectiveProfit, probability) ]

\* lines 98-106: the effective values and the probability, from the parsed
\* totals and the base profit
EnrichWithBaseProfit(opportunity, forecast, chargeTotal, provisionalCostTotal, predictedCostTotal, actualCostTotal, baseProfit) ==
    EnrichedRow(opportunity, forecast, chargeTotal, provisionalCostTotal,
                predictedCostTotal, actualCostTotal, baseProfit,
                IF ~IsNull(forecast)
                THEN getEffectiveRevenue(Some(chargeTotal), Val(forecast).revenue_override)
                ELSE chargeTotal,
                IF ~IsNull(forecast)
                THEN getEffectiveProfit(baseProfit, Val(forecast).profit_override)
                ELSE baseProfit,
                IF ~IsNull(forecast) THEN Val(forecast).probability ELSE NumZero(FALSE))

\* line 95: the base profit, from the parsed totals
EnrichParsed(opportunity, forecast, chargeTotal, provisionalCostTotal, predictedCostTotal, actualCostTotal) ==
    EnrichWithBaseProfit(opportunity, forecast, chargeTotal, provisionalCostTotal,
                         predictedCostTotal, actualCostTotal,
                         calculateBaseProfit(Some(chargeTotal), Some(provisionalCostTotal)))

\* forecast is Null or Some(ForecastMetadata); lines 90-93 parse the totals
enrichOpportunityWithForecast(opportunity, forecast) ==
    EnrichParsed(opportunity, forecast,
                 ParseMoney(opportunity.charge_total),
                 ParseMoney(opportunity.provisional_cost_total),
                 ParseMoney(opportunity.predicted_cost_total),
                 ParseMoney(opportunity.actual_cost_total))

\* the amounts and probabilities of the opportunities the aggregations are
\* run on: a probability of 7 makes value * (probability / 100) round
ChargeTotals == {NumFromInt(8000), NumFromInt(10000)}
CostTotals == {NumFromInt(6000)}
Probabilities == {NumFromInt(7), NumFromInt(50)}
RevenueOverrides == {Null, Some(NumFromInt(9000))}
ProfitOverrides == {Null}

ForecastMetadata ==
    [ probability : Probabilities,
      is_commit : BOOLEAN,
      is_excluded : BOOLEAN,
      revenue_override : RevenueOverrides,
      profit_override : ProfitOverrides ]

OpportunityRows ==
    [ organisation_name : {Null}, owner_name : {Null}, starts_at : {Null},
      charge_total : {Some(c) : c \in ChargeTotals},
      provisional_cost_total : {Some(c) : c \in CostTotals},
      predicted_cost_total : {Null}, actual_cost_total : {Null} ]

\* the rows the summary handler enriches before aggregating them
EnrichedOpportunities ==
    { enrichOpportunityWithForecast(r, f) :
        r \in OpportunityRows, f \in {Null} \cup {Some(m) : m \in ForecastMetadata} }

OpportunityLists ==
    UNION { [1..n -> EnrichedOpportunities] : n \in 0..MaxOpps }

\* opp.forecast?.is_excluded
IsExcluded(opp) == ~IsNull(opp.forecast) /\ Val(opp.forecast).is_excluded

\* !opp.forecast
IsUnreviewed(opp) == IsNull(opp.forecast)

EmptySummary ==
    [ total_pipeline_revenue |-> NumZero(FALSE), total_pipeline_profit |-> NumZero(FALSE),
      total_pipeline_count |-> 0,
      weighted_revenue |-> NumZero(FALSE), weighted_profit |-> NumZero(FALSE),
      commit_revenue |-> NumZero(FALSE), commit_profit |-> NumZero(FALSE), commit_count |-> 0,
      upside_revenue |-> NumZero(FALSE), upside_profit |-> NumZero(FALSE), upside_count |-> 0,
      excluded_count |-> 0, excluded_revenue |-> NumZero(FALSE),
      unreviewed_count |-> 0, unreviewed_revenue |-> NumZero(FALSE) ]

\* a pipeline part that adds the effective revenue to the commit bucket
SummaryPipelineUnweightedCommit(s, opp) ==
    LET p == [s EXCEPT !.total_pipeline_count = @ + 1,
                       !.total_pipeline_revenue = NumAdd(@, opp.effective_revenue),
                       !.total_pipeline_profit = NumAdd(@, opp.effective_profit),
                       !.weighted_revenue = NumAdd(@, opp.weighted_revenue),
                       !.weighted_profit = NumAdd(@, opp.weighted_profit)]
    IN  IF Val(opp.forecast).is_commit
        THEN [p EXCEPT !.commit_count = @ + 1,
                       !.commit_revenue = NumAdd(@, opp.effective_revenue),
                       !.commit_profit = NumAdd(@, opp.weighted_profit)]
        ELSE [p EXCEPT !.upside_count = @ + 1,
                       !.upside_revenue = NumAdd(@, opp.weighted_revenue),
                       !.upside_profit = NumAdd(@, opp.weighted_profit)]

\* the pipeline part of the loop body (lines 172-188)
SummaryPipeline(s, opp) ==
    LET p == [s EXCEPT !.total_pipeline_count = @ + 1,
                       !.total_pipeline_revenue = NumAdd(@, opp.effective_revenue),
                       !.total_pipeline_profit = NumAdd(@, opp.effective_profit),
                       !.weighted_revenue = NumAdd(@, opp.weighted_revenue),
                       !.weighted_profit = NumAdd(@, opp.weighted_profit)]
    IN  IF Val(opp.forecast).is_commit
        THEN [p EXCEPT !.commit_count = @ + 1,
                       !.commit_revenue = NumAdd(@, opp.weighted_revenue),
                       !.commit_profit = NumAdd(@, opp.weighted_profit)]
        ELSE [p EXCEPT !.upside_count = @ + 1,
                       !.upside_revenue = NumAdd(@, opp.weighted_revenue),
                       !.upside_profit = NumAdd(@, opp.weighted_profit)]

\* a loop body whose excluded branch lacks its `continue`
SummaryBodyFallThrough(s, opp) ==
    LET e == IF IsExcluded(opp)
             THEN [s EXCEPT !.excluded_count = @ + 1,
                            !.excluded_revenue = NumAdd(@, opp.effective_revenue)]
             ELSE s
    IN  IF IsUnreviewed(opp)
        THEN [e EXCEPT !.unreviewed_count = @ + 1,
                       !.unreviewed_revenue = NumAdd(@, opp.charge_total)]
        ELSE SummaryPipeline(e, opp)

\* one iteration of the for-of loop of calculateForecastSummary
SummaryBody(s, opp) ==
    IF IsExcluded(opp)
    THEN [s EXCEPT !.excluded_count = @ + 1,
                   !.excluded_revenue = NumAdd(@, opp.effective_revenue)]
    ELSE IF IsUnreviewed(opp)
    THEN [s EXCEPT !.unreviewed_count = @ + 1,
                   !.unreviewed_revenue = NumAdd(@, opp.charge_total)]
    ELSE SummaryPipeline(s, opp)

\* the summary after the loop over opps[i..]
RECURSIVE SummaryFrom(_, _, _)
SummaryFrom(opps, i, s) ==
    IF i > Len(opps) THEN s
    ELSE SummaryFrom(opps, i + 1, SummaryBody(s, opps[i]))

calculateForecastSummary(opps) == SummaryFrom(opps, 1, EmptySummary)


(***************************************************************************)
(* IEEE-754 binary64 arithmetic, as far as calculateRiskScore uses it.     *)
(* A non-negative integer of up to 72 bits is three limbs <<l0, l1, l2>>   *)
(* in base 2^24, least significant first. A double is [m, e] with value    *)
(* m * 2^e and 2^52 <= m < 2^53, or m = 0. Every operation rounds its      *)
(* exact result to nearest, ties to even, as the hardware does.            *)
(***************************************************************************)
Limb == 2 ^ 24

Big(n) == <<n % Limb, n \div Limb, 0>>
BigZero == <<0, 0, 0>>

\* carries (or borrows) propagated to the next limb
BigNorm(x) ==
    LET c0 == x[1] \div Limb
        c1 == (x[2] + c0) \div Limb
    IN  <<x[1] % Limb, (x[2] + c0) % Limb, x[3] + c1>>

BigAdd(x, y) == BigNorm(<<x[1] + y[1], x[2] + y[2], x[3] + y[3]>>)
BigSub(x, y) == BigNorm(<<x[1] - y[1], x[2] - y[2], x[3] - y[3]>>)
BigMulSmall(x, k) == BigNorm(<<x[1] * k, x[2] * k, x[3] * k>>)
BigDouble(x) == BigMulSmall(x, 2)
BigHalf(x) ==
    << (x[1] \div 2) + (x[2] % 2) * (Limb \div 2),
       (x[2] \div 2) + (x[3] % 2) * (Limb \div 2),
       x[3] \div 2 >>
BigOdd(x) == x[1] % 2 = 1
BigGeq(x, y) ==
    IF x[3] # y[3] THEN x[3] > y[3]
    ELSE IF x[2] # y[2] THEN x[2] > y[2]
    ELSE x[1] >= y[1]

\* x * 2^k and floor(x / 2^k), one bit at a time
RECURSIVE BigShl(_, _)
BigShl(x, k) == IF k = 0 \/ x = BigZero THEN x ELSE BigShl(BigDouble(x), k - 1)

RECURSIVE BigShr(_, _)
BigShr(x, k) == IF k = 0 \/ x = BigZero THEN x ELSE BigShr(BigHalf(x), k - 1)

\* 2^52 and 2^53: the range of a normalised mantissa
MantissaMin == <<0, 0, 16>>
MantissaMax == <<0, 0, 32>>

DZero == [m |-> BigZero, e |-> 0]

\* the double nearest to m * 2^e (+ a non-zero fraction below m when sticky):
\* bits are shifted out one at a time, guard is the last one shifted out and
\* sticky the OR of all the earlier ones; ties go to the even mantissa
RECURSIVE DRound(_, _, _, _)
DRound(m, e, guard, sticky) ==
    IF m = BigZero THEN DZero
    ELSE IF BigGeq(m, MantissaMax)
    THEN DRound(BigHalf(m), e + 1, BigOdd(m), sticky \/ guard)
    ELSE IF ~BigGeq(m, MantissaMin)
    THEN DRound(BigDouble(m), e - 1, FALSE, FALSE)
    ELSE IF guard /\ (sticky \/ BigOdd(m))
    THEN LET up == BigAdd(m, Big(1))
         IN  IF up = MantissaMax
             THEN [m |-> MantissaMin, e |-> e + 1]
             ELSE [m |-> up, e |-> e]
    ELSE [m |-> m, e |-> e]

\* a small non-negative integer as a double (exact)
DFromInt(n) == DRound(Big(n), 0, FALSE, FALSE)

\* a + b
DAdd(a, b) ==
    IF a.m = BigZero THEN b
    ELSE IF b.m = BigZero THEN a
    ELSE LET e == IF a.e < b.e THEN a.e ELSE b.e
         IN  DRound(BigAdd(BigShl(a.m, a.e - e), BigShl(b.m, b.e - e)),
                    e, FALSE, FALSE)

\* n * a for a small non-negative integer n
DMulInt(n, a) == DRound(BigMulSmall(a.m, n), a.e, FALSE, FALSE)

\* n more bits of the long division by d; qr = <<quotient, remainder>>
RECURSIVE BigDivBits(_, _, _)
BigDivBits(qr, d, n) ==
    IF n = 0 THEN qr
    ELSE IF BigGeq(qr[2], d)
    THEN BigDivBits(<<BigAdd(BigDouble(qr[1]), Big(1)),
                      BigDouble(BigSub(qr[2], d))>>, d, n - 1)
    ELSE BigDivBits(<<BigDouble(qr[1]), BigDouble(qr[2])>>, d, n - 1)

\* a / b, b # 0: 56 quotient bits, the remainder is the sticky bit
DDiv(a, b) ==
    IF a.m = BigZero THEN DZero
    ELSE LET qr == BigDivBits(<<BigZero, a.m>>, b.m, 56)
         IN  DRound(qr[1], a.e - b.e - 55, FALSE, qr[2] # BigZero)

\* the double a decimal literal t/10 (1.2, 0.9, ...) denotes
DFromTenths(t) == DDiv(DFromInt(t), DFromInt(10))

\* parseFloat(x.toFixed(2)) in hundredths: toFixed picks the integer n with
\* n / 100 closest to the exact value of x, the larger n on a tie, that is
\* floor(x * 100 + 1/2); parseFloat then reads the two decimals back.
\* For 0 < x < 2^52 (e < 0).
ToFixed2(x) ==
    IF x.m = BigZero THEN 0
    ELSE LET n == BigShr(BigAdd(BigMulSmall(x.m, 100), BigShl(Big(1), (-x.e) - 1)),
                         -x.e)
         IN  n[1] + n[2] * Limb

(***************************************************************************)
(* src/lib/riskAssessment.ts                                               *)
(***************************************************************************)

\* the catalogue, in its order; weight in tenths as written in the source
\* (labels and scale texts play no part in the calculation)
RISK_FACTORS ==
    << [id |-> "risk_project_novelty", weight |-> 12],
       [id |-> "risk_technical_complexity", weight |-> 13],
       [id |-> "risk_resource_utilization", weight |-> 11],
       [id |-> "risk_client_sophistication", weight |-> 9],
       [id |-> "risk_budget_size", weight |-> 10],
       [id |-> "risk_timeframe_constraint", weight |-> 12],
       [id |-> "risk_team_experience", weight |-> 13],
       [id |-> "risk_subhire_availability", weight |-> 11] >>

FactorIds == {RISK_FACTORS[i].id : i \in 1..Len(RISK_FACTORS)}

\* factor.weight as the double the literal denotes
FactorWeight == [i \in 1..Len(RISK_FACTORS) |-> DFromTenths(RISK_FACTORS[i].weight)]

(* A RiskScores object maps every factor id to Null (key absent, undefined  *)
(* or null) or Some(v). A score is held as a count of halves: 2 is 1,       *)
(* 7 is 3.5, 10 is 5.                                                       *)
ScoreValues == {-2, 0, 2, 7, 8, 10, 12}

\* score * factor.weight for a score of v halves, v >= 0
DMulScore(v, w) == DRound(BigMulSmall(w.m, v), w.e - 1, FALSE, FALSE)

\* the forEach of calculateRiskScore from factor i on;
\* acc = <<totalWeightedScore, totalWeight>>
RECURSIVE RiskTotals(_, _, _)
RiskTotals(scores, i, acc) ==
    IF i > Len(RISK_FACTORS) \/ acc = <<>> THEN acc
    ELSE LET score == scores[RISK_FACTORS[i].id]
         IN  IF ~IsNull(score)
             THEN RiskTotals(scores, i + 1,
                      <<DAdd(acc[1], DMulScore(Val(score), FactorWeight[i])),
                        DAdd(acc[2], FactorWeight[i])>>)
             ELSE RiskTotals(scores, i + 1, acc)

\* a score that divides the weighted sum by the number of scored factors
calculateRiskScorePlainDivisor(scores) ==
    LET t == RiskTotals(scores, 1, <<DZero, DZero>>)
        count == Cardinality({f \in FactorIds : ~IsNull(scores[f])})
        d == DFromInt(count)
    IN  IF t[2].m = BigZero \/ d.m = BigZero THEN 0
        ELSE ToFixed2(DDiv(t[1], d))

\* a score that averages over the weight of the whole catalogue
calculateRiskScoreAllWeights(scores) ==
    LET t == RiskTotals(scores, 1, <<DZero, DZero>>)
        all == RiskTotals([f \in FactorIds |-> Some(2)], 1, <<DZero, DZero>>)
    IN  IF t[2].m = BigZero THEN 0
        ELSE ToFixed2(DDiv(t[1], all[2]))

\* the result in hundredths: parseFloat of a toFixed(2) string
calculateRiskScore(scores) ==
    LET t == RiskTotals(scores, 1, <<DZero, DZero>>)
    IN  IF t[2].m = BigZero THEN 0
        ELSE ToFixed2(DDiv(t[1], t[2]))

\* RiskLevel; the null level is the string "null"
RiskLevels == <<"null", "LOW", "MEDIUM", "HIGH", "CRITICAL">>

\* score in hundredths
getRiskLevel(score) ==
    IF score = 0 THEN "null"
    ELSE IF score <= 200 THEN "LOW"
    ELSE IF score <= 300 THEN "MEDIUM"
    ELSE IF score <= 400 THEN "HIGH"
    ELSE "CRITICAL"

getApprovalLevel(score) ==
    IF score = 0 THEN "Not assessed"
    ELSE IF score <= 200 THEN "Project Manager"
    ELSE IF score <= 300 THEN "Senior Manager"
    ELSE IF score <= 400 THEN "Operations Director"
    ELSE "Executive Approval Required"

\* a validation that checks the range only
validateRiskScoresRangeOnly(scores) ==
    \A i \in 1..Len(RISK_FACTORS) :
        LET score == scores[RISK_FACTORS[i].id]
        IN  ~IsNull(score) => ~(Val(score) < 2 \/ Val(score) > 10)

\* false at the first present score that is < 1, > 5 or not an integer
validateRiskScores(scores) ==
    \A i \in 1..Len(RISK_FACTORS) :
        LET score == scores[RISK_FACTORS[i].id]
        IN  ~IsNull(score) =>
                ~(Val(score) < 2 \/ Val(score) > 10 \/ Val(score) % 2 # 0)

\* the default approval_thresholds of fetchRiskSettings; maxScore in hundredths
DefaultThresholds ==
    [ low |-> [maxScore |-> 200, approver |-> Null, approverName |-> "Project Manager"],
      medium |-> [maxScore |-> 300, approver |-> Null, approverName |-> "Senior Manager"],
      high |-> [maxScore |-> 400, approver |-> Null,
                approverName |-> "Operations Director"],
      critical |-> [maxScore |-> 500, approver |-> Null,
                    approverName |-> "Executive Approval Required"] ]

\* thresholds saved through the settings page, with approvers assigned
CustomThresholds ==
    [ low |-> [maxScore |-> 150, approver |-> Some(11), approverName |-> "Ann"],
      medium |-> [maxScore |-> 250, approver |-> Some(12), approverName |-> "Bo"],
      high |-> [maxScore |-> 350, approver |-> Some(13), approverName |-> "Cy"],
      critical |-> [maxScore |-> 500, approver |-> Some(14), approverName |-> "Di"] ]

\* thresholds whose boundaries are out of order; nothing validates them
UnorderedThresholds ==
    [ low |-> [maxScore |-> 300, approver |-> Some(11), approverName |-> "Ann"],
      medium |-> [maxScore |-> 200, approver |-> Some(12), approverName |-> "Bo"],
      high |-> [maxScore |-> 400, approver |-> Some(13), approverName |-> "Cy"],
      critical |-> [maxScore |-> 100, approver |-> Some(14), approverName |-> "Di"] ]

ThresholdSets == {DefaultThresholds, CustomThresholds, UnorderedThresholds}

\* a banding that tests the medium tier before the low one
getApprovalLevelMediumFirst(score, thresholds) ==
    IF score = 0
    THEN [level |-> "null",
          approver |-> [maxScore |-> 0, approver |-> Null, approverName |-> "Not assessed"]]
    ELSE IF score <= thresholds.medium.maxScore
    THEN [level |-> "MEDIUM", approver |-> thresholds.medium]
    ELSE IF score <= thresholds.low.maxScore
    THEN [level |-> "LOW", approver |-> thresholds.low]
    ELSE IF score <= thresholds.high.maxScore
    THEN [level |-> "HIGH", approver |-> thresholds.high]
    ELSE [level |-> "CRITICAL", approver |-> thresholds.critical]

\* a banding whose tiers end below their maxScore
getApprovalLevelBelowMax(score, thresholds) ==
    IF score = 0
    THEN [level |-> "null",
          approver |-> [maxScore |-> 0, approver |-> Null, approverName |-> "Not assessed"]]
    ELSE IF score < thresholds.low.maxScore
    THEN [level |-> "LOW", approver |-> thresholds.low]
    ELSE IF score < thresholds.medium.maxScore
    THEN [level |-> "MEDIUM", approver |-> thresholds.medium]
    ELSE IF score < thresholds.high.maxScore
    THEN [level |-> "HIGH", approver |-> thresholds.high]
    ELSE [level |-> "CRITICAL", approver |-> thresholds.critical]


getApprovalLevelWithThresholds(score, thresholds) ==
    IF score = 0
    THEN [level |-> "null",
          approver |-> [maxScore |-> 0, approver |-> Null, approverName |-> "Not assessed"]]
    ELSE IF score <= thresholds.low.maxScore
    THEN [level |-> "LOW", approver |-> thresholds.low]
    ELSE IF score <= thresholds.medium.maxScore
    THEN [level |-> "MEDIUM", approver |-> thresholds.medium]
    ELSE IF score <= thresholds.high.maxScore
    THEN [level |-> "HIGH", approver |-> thresholds.high]
    ELSE [level |-> "CRITICAL", approver |-> thresholds.critical]

(***************************************************************************)
(* The levels of a score: what the assessment modal (src/unnamed/part_008, *)
(* lines 57-59) and the risk page compute for the score they hold, and the *)
(* threshold-aware variant for the thresholds in use.                      *)
(***************************************************************************)
LevelsOf(score, thresholds) ==
    [ level |-> getRiskLevel(score),
      approval |-> getApprovalLevel(score),
      tier |-> getApprovalLevelWithThresholds(score, thresholds) ]

LIdle ==
    /\ lscore = 0
    /\ lthresholds = DefaultThresholds
    /\ lout = LevelsOf(0, DefaultThresholds)

LInit ==
    /\ lscore = 0
    /\ lthresholds \in ThresholdSets
    /\ lout = LevelsOf(0, lthresholds)

\* the score changes (a factor was scored, another opportunity is shown) and
\* its levels are computed anew
Rescore(s) ==
    /\ lscore' = s
    /\ lout' = LevelsOf(s, lthresholds)
    /\ UNCHANGED lthresholds
    /\ UNCHANGED <<fvars, hvars, svars, xvars>>

\* the scores getRiskLevel is given: the rounded weighted means, and on the
\* risk page any number held in the custom field risk_score of the external
\* system (src/pages/settings/risk.tsx, lines 695-697), negative ones included
ScoreInputs == {-100, -1} \cup (0..MaxScore)

LNext == \E s \in ScoreInputs : Rescore(s)

(***************************************************************************)
(* src/unnamed/part_002: PATCH /api/opportunities/[id]/risk                *)
(***************************************************************************)

\* the RiskScores objects a request body may carry
ScoreMaps ==
    LET n == IF MaxScored < Len(RISK_FACTORS) THEN MaxScored ELSE Len(RISK_FACTORS)
    IN  { [f \in FactorIds |->
             IF \E i \in 1..n : RISK_FACTORS[i].id = f
             THEN g[CHOOSE i \in 1..n : RISK_FACTORS[i].id = f]
             ELSE Null] :
          g \in [1..n -> {Null} \cup {Some(v) : v \in ScoreValues}] }

\* request bodies: the factor scores with the risk_score and risk_level the
\* client computed (here: wrong ones)
RiskBodies ==
    { [scores |-> sc, risk_score |-> Some(999), risk_level |-> "CRITICAL"] :
        sc \in ScoreMaps }

SampleBody ==
    [ scores |-> [f \in FactorIds |-> Null],
      risk_score |-> Some(999), risk_level |-> "CRITICAL" ]

\* a PATCH with an id and a body, and the requests the handler turns away
\* before it looks at the scores
RiskRequests ==
    { [method |-> "PATCH", id |-> Some("42"), body |-> Some(b)] : b \in RiskBodies }
    \cup { [method |-> "GET", id |-> Some("42"), body |-> Some(SampleBody)],
           [method |-> "PATCH", id |-> Null, body |-> Some(SampleBody)],
           [method |-> "PATCH", id |-> Some("42"), body |-> Null] }

Response(status, error) == Some([status |-> status, error |-> error])

\* a handler that sends what the client supplied once the scores are valid
RiskHandlerSyncTrustClient(req, creds) ==
    LET stop(status, error) ==
            [ hpc |-> "done", riskData |-> req.body, hsent |-> Null,
              hres |-> Response(status, error) ]
    IN  IF req.method # "PATCH" THEN stop(405, "Method not allowed")
        ELSE IF IsNull(req.id) THEN stop(400, "Invalid opportunity ID")
        ELSE IF IsNull(req.body) THEN stop(400, "Risk assessment data is required")
        ELSE IF ~validateRiskScores(Val(req.body).scores)
        THEN stop(400, "Invalid risk scores")
        ELSE IF ~creds
        THEN stop(500, "Server configuration error")
        ELSE [ hpc |-> "fetching", riskData |-> req.body,
               hsent |-> Some([id |-> Val(req.id), custom_fields |-> Val(req.body)]),
               hres |-> Null ]

\* the handler up to its first await (lines 15-70): the checks, the
\* recalculation written into req.body, and the fetch call
RiskHandlerSync(req, creds) ==
    LET stop(status, error, data) ==
            [ hpc |-> "done", riskData |-> data, hsent |-> Null,
              hres |-> Response(status, error) ]
    IN  IF req.method # "PATCH" THEN stop(405, "Method not allowed", req.body)
        ELSE IF IsNull(req.id) THEN stop(400, "Invalid opportunity ID", req.body)
        ELSE IF IsNull(req.body)
        THEN stop(400, "Risk assessment data is required", req.body)
        ELSE IF ~validateRiskScores(Val(req.body).scores)
        THEN stop(400, "Invalid risk scores", req.body)
        ELSE LET calculatedScore == calculateRiskScore(Val(req.body).scores)
                 riskLevel == getRiskLevel(calculatedScore)
                 updated == [Val(req.body) EXCEPT
                               !.risk_score = Some(calculatedScore),
                               !.risk_level = IF riskLevel = "null" THEN ""
                                              ELSE riskLevel]
             IN  IF ~creds
                 THEN stop(500, "Server configuration error", Some(updated))
                 ELSE [ hpc |-> "fetching", riskData |-> Some(updated),
                        hsent |-> Some([id |-> Val(req.id),
                                        custom_fields |-> updated]),
                        hres |-> Null ]

HInit ==
    /\ credentials \in BOOLEAN
    /\ hpc = "idle"
    /\ hreq = Null
    /\ riskData = Null
    /\ hsent = Null
    /\ hfetch = Null
    /\ hres = Null

\* a request arrives and the handler runs up to its first await
HandleRequest(req) ==
    /\ hpc = "idle"
    /\ LET r == RiskHandlerSync(req, credentials)
       IN  /\ hpc' = r.hpc
           /\ riskData' = r.riskData
           /\ hsent' = r.hsent
           /\ hres' = r.hres
    /\ hreq' = Some(req)
    /\ UNCHANGED <<credentials, hfetch>>
    /\ UNCHANGED <<fvars, lvars, svars, xvars>>

\* statuses Current RMS answers with
ExternalStatuses == {200, 404}

\* fetch resolves: the handler goes on to read the answer's body
FetchResolves(status) ==
    /\ hpc = "fetching"
    /\ hfetch' = Some(status)
    /\ hpc' = "reading"
    /\ UNCHANGED <<credentials, hreq, riskData, hsent, hres>>
    /\ UNCHANGED <<fvars, lvars, svars, xvars>>

\* fetch rejects: the catch answers 500
FetchRejects ==
    /\ hpc = "fetching"
    /\ hpc' = "done"
    /\ hres' = Response(500, "Internal server error")
    /\ UNCHANGED <<credentials, hreq, riskData, hsent, hfetch>>
    /\ UNCHANGED <<fvars, lvars, svars, xvars>>

\* response.text() / response.json() resolves
BodyResolves ==
    /\ hpc = "reading"
    /\ hpc' = "done"
    /\ hres' = IF Val(hfetch) \in 200..299
               THEN Response(200, "")
               ELSE Response(Val(hfetch),
                             "Failed to update risk assessment in Current RMS")
    /\ UNCHANGED <<credentials, hreq, riskData, hsent, hfetch>>
    /\ UNCHANGED <<fvars, lvars, svars, xvars>>

\* response.text() / response.json() rejects: the catch answers 500
BodyRejects ==
    /\ hpc = "reading"
    /\ hpc' = "done"
    /\ hres' = Response(500, "Internal server error")
    /\ UNCHANGED <<credentials, hreq, riskData, hsent, hfetch>>
    /\ UNCHANGED <<fvars, lvars, svars, xvars>>

HNext ==
    \/ \E req \in RiskRequests : HandleRequest(req)
    \/ \E status \in ExternalStatuses : FetchResolves(status)
    \/ FetchRejects
    \/ BodyResolves
    \/ BodyRejects

(***************************************************************************)
(* src/lib/riskAssessment.ts, lines 251-297: the risk settings cache       *)
(***************************************************************************)

\* 5 * 60 * 1000 ms, in minutes
CACHE_TTL == 5

\* the settings fetchRiskSettings returns when it cannot fetch any
DefaultRiskSettings ==
    [risk_factors |-> RISK_FACTORS, approval_thresholds |-> DefaultThresholds]

\* src/pages/api/events.ts, getDefaultRiskSettings: what the route serves
\* for a key that has no row
getDefaultRiskSettings ==
    [risk_factors |-> RISK_FACTORS, approval_thresholds |-> DefaultThresholds]

\* the catalogue as the settings page saves it after an edit of one weight
\* (updateFactorWeight: budget size 1.0 -> 2.0)
EditedRiskFactors == [RISK_FACTORS EXCEPT ![5].weight = 20]

\* the body the settings page posts: JSON.stringify(settings), both keys
SettingsBody ==
    [risk_factors |-> EditedRiskFactors, approval_thresholds |-> CustomThresholds]

\* the risk_settings table without rows (or not yet created: the route
\* answers both with the defaults)
NoRows == [risk_factors |-> Null, approval_thresholds |-> Null]

\* the settings the GET branch answers with for the rows of the table: the
\* defaults when there is no row, else each key from its row or, when the
\* row is missing, from the defaults
ServerSettings(rows) ==
    IF IsNull(rows.risk_factors) /\ IsNull(rows.approval_thresholds)
    THEN getDefaultRiskSettings
    ELSE [ risk_factors |->
               IF IsNull(rows.risk_factors) THEN getDefaultRiskSettings.risk_factors
               ELSE Val(rows.risk_factors),
           approval_thresholds |->
               IF IsNull(rows.approval_thresholds)
               THEN getDefaultRiskSettings.approval_thresholds
               ELSE Val(rows.approval_thresholds) ]

Callers == 1..MaxCallers

\* what the body of the answer of /api/settings/risk parses to: settings with
\* success = true, an error object with success = false (the 500 and 400
\* answers of the route), or nothing parsable
SettingsAnswers == {"success", "failure", "unparsable"}

IdleCall ==
    [ pc |-> "idle", fresh |-> FALSE, requested |-> FALSE, stale |-> FALSE,
      answer |-> Null, outcome |-> "none", result |-> Null ]

\* a cache check that still serves settings that are exactly CACHE_TTL old
CacheHitInclusive(cached, timestamp, time) ==
    ~IsNull(cached) /\ (time - timestamp) <= CACHE_TTL

\* cachedSettings && (Date.now() - cacheTimestamp) < CACHE_TTL
CacheHit(cached, timestamp, time) ==
    ~IsNull(cached) /\ (time - timestamp) < CACHE_TTL

\* a failure path without the try/catch: the promise rejects
SettingsFailureRejects(call, why) ==
    [call EXCEPT !.pc = "rejected", !.outcome = why, !.answer = Null,
                 !.stale = FALSE]

\* a failure path that serves what the cache holds, however old
SettingsFailureServesStale(call, why) ==
    [call EXCEPT !.pc = "returned", !.outcome = why, !.answer = Null,
                 !.stale = FALSE,
                 !.result = IF IsNull(cachedSettings)
                            THEN Some(DefaultRiskSettings) ELSE cachedSettings]


\* the catch block and the fall-through to `return { ...defaults }`
SettingsFailure(call, why) ==
    [call EXCEPT !.pc = "returned", !.outcome = why, !.answer = Null,
                 !.stale = FALSE,
                 !.result = Some(DefaultRiskSettings)]

SInit ==
    /\ now = 0
    /\ cachedSettings = Null
    /\ cacheTimestamp = 0
    /\ stored = NoRows
    /\ saving = "idle"
    /\ calls = [c \in Callers |-> IdleCall]
    /\ lastSuccess = Null
    /\ cacheStale = FALSE

SIdle ==
    /\ now = 0
    /\ cachedSettings = Null
    /\ cacheTimestamp = 0
    /\ stored = NoRows
    /\ saving = "idle"
    /\ calls = <<>>
    /\ lastSuccess = Null
    /\ cacheStale = FALSE

\* a caller calls fetchRiskSettings: it returns the cached settings, or
\* calls fetch and waits
CallFetchRiskSettings(c) ==
    /\ calls[c].pc \in {"idle", "returned"}
    /\ LET fresh == ~IsNull(lastSuccess) /\ now - Val(lastSuccess) < CACHE_TTL
       IN  IF CacheHit(cachedSettings, cacheTimestamp, now)
           THEN calls' = [calls EXCEPT ![c] =
                    [ pc |-> "returned", fresh |-> fresh, requested |-> FALSE,
                      stale |-> FALSE,
                      answer |-> Null, outcome |-> "cache",
                      result |-> cachedSettings ]]
           ELSE calls' = [calls EXCEPT ![c] =
                    [ pc |-> "fetching", fresh |-> fresh, requested |-> TRUE,
                      stale |-> FALSE,
                      answer |-> Null, outcome |-> "none", result |-> Null ]]
    /\ UNCHANGED <<now, cachedSettings, cacheTimestamp, stored, saving, lastSuccess, cacheStale>>
    /\ UNCHANGED <<fvars, hvars, lvars, xvars>>

\* fetch resolves with the answer of the route; the caller goes on to
\* response.json()
SettingsFetchResolves(c, kind) ==
    /\ calls[c].pc = "fetching"
    /\ calls' = [calls EXCEPT ![c].pc = "parsing",
                              ![c].answer =
                                  IF kind = "success"
                                  THEN Some([success |-> TRUE,
                                             settings |-> ServerSettings(stored)])
                                  ELSE IF kind = "failure"
                                  THEN Some([success |-> FALSE])
                                  ELSE Null]
    /\ UNCHANGED <<now, cachedSettings, cacheTimestamp, stored, saving, lastSuccess, cacheStale>>
    /\ UNCHANGED <<fvars, hvars, lvars, xvars>>

\* fetch rejects (network error)
SettingsFetchRejects(c) ==
    /\ calls[c].pc = "fetching"
    /\ calls' = [calls EXCEPT ![c] = SettingsFailure(@, "threw")]
    /\ UNCHANGED <<now, cachedSettings, cacheTimestamp, stored, saving, lastSuccess, cacheStale>>
    /\ UNCHANGED <<fvars, hvars, lvars, xvars>>

\* a refresh that keeps the timestamp of the refresh that filled the cache
SettingsParsedSuccessKeepTimestamp(c) ==
    /\ calls[c].pc = "parsing"
    /\ ~IsNull(calls[c].answer)
    /\ Val(calls[c].answer).success
    /\ cachedSettings' = Some(Val(calls[c].answer).settings)
    /\ cacheTimestamp' = IF IsNull(cachedSettings) THEN now ELSE cacheTimestamp
    /\ lastSuccess' = Some(now)
    /\ cacheStale' = calls[c].stale
    /\ calls' = [calls EXCEPT ![c].pc = "returned",
                              ![c].outcome = "success",
                              ![c].answer = Null,
                              ![c].stale = FALSE,
                              ![c].result = Some(Val(calls[c].answer).settings)]
    /\ UNCHANGED <<now, stored, saving>>
    /\ UNCHANGED <<fvars, hvars, lvars, xvars>>

\* response.json() resolves with success = true: the settings are cached
\* with the time of this moment and returned
SettingsParsedSuccess(c) ==
    /\ calls[c].pc = "parsing"
    /\ ~IsNull(calls[c].answer)
    /\ Val(calls[c].answer).success
    /\ cachedSettings' = Some(Val(calls[c].answer).settings)
    /\ cacheTimestamp' = now
    /\ lastSuccess' = Some(now)
    /\ cacheStale' = calls[c].stale
    /\ calls' = [calls EXCEPT ![c].pc = "returned",
                              ![c].outcome = "success",
                              ![c].answer = Null,
                              ![c].stale = FALSE,
                              ![c].result = Some(Val(calls[c].answer).settings)]
    /\ UNCHANGED <<now, stored, saving>>
    /\ UNCHANGED <<fvars, hvars, lvars, xvars>>

\* response.json() resolves without success = true: defaults
SettingsParsedFailure(c) ==
    /\ calls[c].pc = "parsing"
    /\ ~IsNull(calls[c].answer)
    /\ ~Val(calls[c].answer).success
    /\ calls' = [calls EXCEPT ![c] = SettingsFailure(@, "nosuccess")]
    /\ UNCHANGED <<now, cachedSettings, cacheTimestamp, stored, saving, lastSuccess, cacheStale>>
    /\ UNCHANGED <<fvars, hvars, lvars, xvars>>

\* response.json() rejects (the body is no JSON): defaults
SettingsParseRejects(c) ==
    /\ calls[c].pc = "parsing"
    /\ IsNull(calls[c].answer)
    /\ calls' = [calls EXCEPT ![c] = SettingsFailure(@, "unparsable")]
    /\ UNCHANGED <<now, cachedSettings, cacheTimestamp, stored, saving, lastSuccess, cacheStale>>
    /\ UNCHANGED <<fvars, hvars, lvars, xvars>>

clearRiskSettingsCache ==
    /\ cachedSettings' = Null
    /\ cacheTimestamp' = 0
    /\ lastSuccess' = Null
    /\ cacheStale' = FALSE
    /\ UNCHANGED <<now, stored, saving, calls>>
    /\ UNCHANGED <<fvars, hvars, lvars, xvars>>

\* clearRiskSettingsCache, with the calls whose request is under way at this
\* moment marked in the history: the marks change nothing the code reads
clearRiskSettingsCacheDuringFetch ==
    /\ cachedSettings' = Null
    /\ cacheTimestamp' = 0
    /\ lastSuccess' = Null
    /\ cacheStale' = FALSE
    /\ calls' = [c \in Callers |->
                    IF calls[c].pc \in {"fetching", "parsing"}
                    THEN [calls[c] EXCEPT !.stale = TRUE] ELSE calls[c]]
    /\ UNCHANGED <<now, stored, saving>>
    /\ UNCHANGED <<fvars, hvars, lvars, xvars>>

\* POST /api/settings/risk with the body of the settings page, up to its
\* second await: the handler issues the upsert of risk_factors, and when the
\* statement has written the row it issues the upsert of approval_thresholds
\* and waits; when the statement failed it answers 500. (Nothing the other
\* steps read changes between the arrival of the request and the moment the
\* first statement settles. A body without settings is answered with 400
\* and changes nothing.)
SaveSettings(ok) ==
    /\ saving = "idle"
    /\ IF ok
       THEN /\ stored' = [stored EXCEPT !.risk_factors = Some(SettingsBody.risk_factors)]
            /\ saving' = "approval_thresholds"
       ELSE /\ stored' = stored
            /\ saving' = "idle"
    /\ UNCHANGED <<now, cachedSettings, cacheTimestamp, calls, lastSuccess, cacheStale>>
    /\ UNCHANGED <<fvars, hvars, lvars, xvars>>

\* the upsert of approval_thresholds settles: the row is written and the
\* handler answers 200, or the statement failed and the handler answers 500
\* with the risk_factors row staying as written
SaveApprovalThresholds(ok) ==
    /\ saving = "approval_thresholds"
    /\ IF ok
       THEN stored' = [stored EXCEPT
                          !.approval_thresholds = Some(SettingsBody.approval_thresholds)]
       ELSE stored' = stored
    /\ saving' = "idle"
    /\ UNCHANGED <<now, cachedSettings, cacheTimestamp, calls, lastSuccess, cacheStale>>
    /\ UNCHANGED <<fvars, hvars, lvars, xvars>>

\* a minute passes
Tick ==
    /\ now < MaxTime
    /\ now' = now + 1
    /\ UNCHANGED <<cachedSettings, cacheTimestamp, stored, saving, calls, lastSuccess, cacheStale>>
    /\ UNCHANGED <<fvars, hvars, lvars, xvars>>

SNext ==
    \/ \E c \in Callers : CallFetchRiskSettings(c)
    \/ \E c \in Callers, kind \in SettingsAnswers : SettingsFetchResolves(c, kind)
    \/ \E c \in Callers : SettingsFetchRejects(c)
    \/ \E c \in Callers : SettingsParsedSuccess(c)
    \/ \E c \in Callers : SettingsParsedFailure(c)
    \/ \E c \in Callers : SettingsParseRejects(c)
    \/ clearRiskSettingsCache
    \/ \E ok \in BOOLEAN : SaveSettings(ok)
    \/ \E ok \in BOOLEAN : SaveApprovalThresholds(ok)
    \/ Tick

\* the same steps, with the history of the requests that a clear overtakes
SRaceNext ==
    \/ \E c \in Callers : CallFetchRiskSettings(c)
    \/ \E c \in Callers, kind \in SettingsAnswers : SettingsFetchResolves(c, kind)
    \/ \E c \in Callers : SettingsFetchRejects(c)
    \/ \E c \in Callers : SettingsParsedSuccess(c)
    \/ \E c \in Callers : SettingsParsedFailure(c)
    \/ \E c \in Callers : SettingsParseRejects(c)
    \/ clearRiskSettingsCacheDuringFetch
    \/ \E ok \in BOOLEAN : SaveSettings(ok)
    \/ \E ok \in BOOLEAN : SaveApprovalThresholds(ok)
    \/ Tick

EIdle ==
    /\ eopp = Null
    /\ eforecast = Null
    /\ eout = Null

GIdle ==
    /\ vopps = <<>>
    /\ groupByWeek = FALSE
    /\ byOwner = Null
    /\ byCustomer = Null
    /\ byProbabilityBand = Null
    /\ timeSeries = Null

\* number of webhook requests
MaxRequests == 2

Requests == 1..MaxRequests

WIdle ==
    /\ wpc = [r \in Requests |-> "idle"]
    /\ wres = [r \in Requests |-> 0]
    /\ wevent = [r \in Requests |-> Null]
    /\ events = <<>>
    /\ storageFile = Null
    /\ metrics = Null

\* a rule with a trigger on action types only, whose action resolves
ExampleRule(id, actionTypes) ==
    [ id |-> id, actionTypes |-> Some(actionTypes), statusChanges |-> Null,
      enabled |-> TRUE, action |-> "resolves" ]

\* the rules the module registers when it is loaded (part_015, lines 80-143)
ExampleRules ==
    << ExampleRule("notify-order-conversion", <<"convert_to_order">>),
       ExampleRule("log-status-changes",
                   <<"update", "mark_as_provisional", "mark_as_reserved",
                     "mark_as_lost", "mark_as_dead">>),
       ExampleRule("validate-reserved-orders", <<"mark_as_reserved">>),
       ExampleRule("alert-lost-opportunities", <<"mark_as_lost">>) >>

RIdle ==
    /\ rules = ExampleRules
    /\ registrations = 0
    /\ xpc = "idle"
    /\ xevent = Null
    /\ xrules = <<>>
    /\ applicableRules = <<>>
    /\ xi = 0
    /\ xpending = {}
    /\ xlog = <<>>

QIdle ==
    /\ addCount = 0
    /\ addedSince = <<>>
    /\ recent = Null
    /\ found = Null

YIdle ==
    /\ sync = Null
    /\ syncMetadata = <<>>
    /\ opportunitiesTable = {}
    /\ lastWebhookAt = {}
    /\ single = Null

ZIdle == RIdle /\ QIdle /\ YIdle

XIdle == EIdle /\ GIdle /\ WIdle /\ ZIdle

FIdle ==
    /\ opportunities = <<>>
    /\ summary = EmptySummary
    /\ fi = 0

FInit ==
    /\ opportunities \in OpportunityLists
    /\ summary = EmptySummary
    /\ fi = 0

\* the for-of loop takes the next opportunity of the list and runs its body
SummaryStep ==
    /\ fi < Len(opportunities)
    /\ summary' = SummaryBody(summary, opportunities[fi + 1])
    /\ fi' = fi + 1
    /\ UNCHANGED opportunities
    /\ UNCHANGED <<hvars, lvars, svars, xvars>>

FNext == SummaryStep

vars == <<fvars, hvars, lvars, svars, xvars>>

HIdle ==
    /\ credentials = TRUE
    /\ hpc = "idle"
    /\ hreq = Null
    /\ riskData = Null
    /\ hsent = Null
    /\ hfetch = Null
    /\ hres = Null

ForecastInit == FInit /\ HIdle /\ LIdle /\ SIdle /\ XIdle

SpecForecast ==
    /\ ForecastInit
    /\ [][FNext]_vars

RiskHandlerInit == HInit /\ FIdle /\ LIdle /\ SIdle /\ XIdle

SpecRiskHandler ==
    /\ RiskHandlerInit
    /\ [][HNext]_vars

RiskLevelInit == LInit /\ FIdle /\ HIdle /\ SIdle /\ XIdle

SpecRiskLevel ==
    /\ RiskLevelInit
    /\ [][LNext]_vars

SettingsInit == SInit /\ FIdle /\ HIdle /\ LIdle /\ XIdle

SpecSettings ==
    /\ SettingsInit
    /\ [][SNext]_vars

SpecSettingsRace ==
    /\ SettingsInit
    /\ [][SRaceNext]_vars

(***************************************************************************)
(* enrichOpportunityWithForecast on rows as the database gives them        *)
(***************************************************************************)

\* charge_total of a row: missing, numbers, numerals of every shape
\* parseFloat reads (a fraction, an exponent, white space in front, of ASCII
\* and outside it, Infinity) and other strings, one of which starts with a
\* character outside ASCII that is no white space
RawCharges ==
    { Null, Some(NumFromInt(0)), Some(NumFromInt(8000)), Some(NumFromInt(10000)),
      Str(<<"1", "0", "0", "0", "0", ".", "0", "0">>),
      Str(<<"1", "2", ".", "5">>), Str(<<"1", "e", "3">>),
      Str(<<"\t", "U+000B", "4", "2">>), Str(<<"U+FEFF", "4", "2">>),
      Str(<<"U+2000", " ", "U+3000", "4", "2">>), Str(<<"U+00E9", "4", "2">>),
      Str(<<".", "5">>),
      Str(<<"-", "1", ".", "5", "e", "2">>),
      Str(<<"I", "n", "f", "i", "n", "i", "t", "y">>),
      Str(<<"a", "b", "c">>), Str(<<>>),
      Str(<<"1", "2", "a", "b", "c">>) }

RawProvisionalCosts ==
    { Null, Some(NumFromInt(6000)), Str(<<"6", "0", "0", "0">>),
      Str(<<"N", "/", "A">>) }

RawPredictedCosts == { Some(NumFromInt(5000)), Str(<<"-">>) }

RawActualCosts == { Null, Some(NumFromInt(4000)) }

RawOpportunities ==
    [ organisation_name : {Null}, owner_name : {Null}, starts_at : {Null},
      charge_total : RawCharges,
      provisional_cost_total : RawProvisionalCosts,
      predicted_cost_total : RawPredictedCosts,
      actual_cost_total : RawActualCosts ]

\* forecasts with and without overrides, an override of 0 among them
EnrichForecasts ==
    [ probability : {NumFromInt(0), NumFromInt(7), NumFromInt(50), NumFromInt(100)},
      is_commit : {TRUE},
      is_excluded : {FALSE},
      revenue_override : {Null, Some(NumFromInt(0)), Some(NumFromInt(9000))},
      profit_override : {Null, Some(NumFromInt(0)), Some(NumFromInt(3000))} ]

EInit ==
    /\ eopp \in RawOpportunities
    /\ eforecast \in {Null} \cup {Some(m) : m \in EnrichForecasts}
    /\ eout = Null

\* the call returns
Enrich ==
    /\ IsNull(eout)
    /\ eout' = Some(enrichOpportunityWithForecast(eopp, eforecast))
    /\ UNCHANGED <<eopp, eforecast>>
    /\ UNCHANGED <<fvars, hvars, lvars, svars, gvars, wvars, zvars>>

ENext == Enrich

EnrichInit == EInit /\ FIdle /\ HIdle /\ LIdle /\ SIdle /\ GIdle /\ WIdle /\ ZIdle

SpecEnrich ==
    /\ EnrichInit
    /\ [][ENext]_vars


(***************************************************************************)
(* src/unnamed/part_014, lines 197-292: calculateForecastByOwner and       *)
(* calculateForecastByCustomer. A name is Null (missing) or Some(string).  *)
(***************************************************************************)

\* name || fallback : a missing or empty name gives the fallback
NameOr(name, fallback) ==
    IF IsNull(name) \/ Val(name) = "" THEN fallback ELSE Val(name)

\* the position of the group called name, 0 when there is none (Map.has)
GroupIndex(groups, name) ==
    IF \E i \in 1..Len(groups) : groups[i].name = name
    THEN CHOOSE i \in 1..Len(groups) : groups[i].name = name
    ELSE 0

NewGroup(name) ==
    [ name |-> name, pipeline_revenue |-> NumZero(FALSE), pipeline_profit |-> NumZero(FALSE),
      weighted_revenue |-> NumZero(FALSE), weighted_profit |-> NumZero(FALSE),
      commit_revenue |-> NumZero(FALSE), upside_revenue |-> NumZero(FALSE),
      opportunity_count |-> 0, avg_probability |-> NumZero(FALSE) ]

\* a group whose commit_revenue takes the unweighted revenue
AddToGroupCommitUnweighted(g, opp) ==
    LET commit == ~IsNull(opp.forecast) /\ Val(opp.forecast).is_commit
    IN  [g EXCEPT
           !.opportunity_count = @ + 1,
           !.pipeline_revenue = NumAdd(@, opp.effective_revenue),
           !.pipeline_profit = NumAdd(@, opp.effective_profit),
           !.weighted_revenue = NumAdd(@, opp.weighted_revenue),
           !.weighted_profit = NumAdd(@, opp.weighted_profit),
           !.commit_revenue = IF commit THEN NumAdd(@, opp.effective_revenue) ELSE @,
           !.upside_revenue = IF commit THEN @ ELSE NumAdd(@, opp.weighted_revenue),
           !.avg_probability =
               NumAdd(@, IF IsNull(opp.forecast) THEN NumZero(FALSE)
                         ELSE Val(opp.forecast).probability)]


\* opp added to its owner's group (lines 227-241)
AddToGroup(g, opp) ==
    LET commit == ~IsNull(opp.forecast) /\ Val(opp.forecast).is_commit
    IN  [g EXCEPT
           !.opportunity_count = @ + 1,
           !.pipeline_revenue = NumAdd(@, opp.effective_revenue),
           !.pipeline_profit = NumAdd(@, opp.effective_profit),
           !.weighted_revenue = NumAdd(@, opp.weighted_revenue),
           !.weighted_profit = NumAdd(@, opp.weighted_profit),
           !.commit_revenue = IF commit THEN NumAdd(@, opp.weighted_revenue) ELSE @,
           !.upside_revenue = IF commit THEN @ ELSE NumAdd(@, opp.weighted_revenue),
           !.avg_probability =
               NumAdd(@, IF IsNull(opp.forecast) THEN NumZero(FALSE)
                         ELSE Val(opp.forecast).probability)]

\* the Map after the loop over opps[i..], in insertion order
RECURSIVE GroupsByOwner(_, _, _)
GroupsByOwner(opps, i, groups) ==
    IF i > Len(opps) THEN groups
    ELSE IF IsExcluded(opps[i]) THEN GroupsByOwner(opps, i + 1, groups)
    ELSE LET ownerName == NameOr(opps[i].owner_name, "Unassigned")
             k == GroupIndex(groups, ownerName)
             had == IF k = 0 THEN Append(groups, NewGroup(ownerName)) ELSE groups
             at == IF k = 0 THEN Len(had) ELSE k
         IN  GroupsByOwner(opps, i + 1,
                 [had EXCEPT ![at] = AddToGroup(@, opps[i])])

\* the customer groups carry no profit and no commit / upside split; those
\* fields of the group record stay 0 here
AddToCustomer(g, opp) ==
    [g EXCEPT
       !.opportunity_count = @ + 1,
       !.pipeline_revenue = NumAdd(@, opp.effective_revenue),
       !.weighted_revenue = NumAdd(@, opp.weighted_revenue),
       !.avg_probability =
           NumAdd(@, IF IsNull(opp.forecast) THEN NumZero(FALSE)
                         ELSE Val(opp.forecast).probability)]

RECURSIVE GroupsByCustomer(_, _, _)
GroupsByCustomer(opps, i, groups) ==
    IF i > Len(opps) THEN groups
    ELSE IF IsExcluded(opps[i]) THEN GroupsByCustomer(opps, i + 1, groups)
    ELSE LET orgName == NameOr(opps[i].organisation_name, "Unknown Customer")
             k == GroupIndex(groups, orgName)
             had == IF k = 0 THEN Append(groups, NewGroup(orgName)) ELSE groups
             at == IF k = 0 THEN Len(had) ELSE k
         IN  GroupsByCustomer(opps, i + 1,
                 [had EXCEPT ![at] = AddToCustomer(@, opps[i])])

\* groups whose avg_probability is left as the sum of the probabilities
WithAveragesUndivided(groups) ==
    [i \in 1..Len(groups) |->
        groups[i]]


\* avg_probability = avg_probability / opportunity_count
WithAverages(groups) ==
    [i \in 1..Len(groups) |->
        IF groups[i].opportunity_count > 0
        THEN [groups[i] EXCEPT
                !.avg_probability =
                    NumDiv(@, NumFromInt(groups[i].opportunity_count))]
        ELSE groups[i]]

\* the comparator (a, b) => b[key] - a[key] as sort reads it: -1, 0 or 1 for
\* a negative value, a zero or NaN, a positive value
CompareBy(a, b, key) ==
    LET v == NumSub(b[key], a[key])
    IN  IF IsNaN(v) \/ IsZero(v) THEN 0 ELSE IF v.neg THEN -1 ELSE 1

\* Array.prototype.sort as V8 runs it on an array of fewer than 64 elements:
\* the run the array starts with is found (a strictly descending one is
\* reversed) and each later element is put in its place by binary search.
\* With a comparator that is an order this is the stable sort; with
\* differences that are NaN it is what the engine returns.

\* the last index of the run that starts at arr[1], idx the next to look at
RECURSIVE RunEnd(_, _, _, _)
RunEnd(arr, key, descending, idx) ==
    IF idx > Len(arr) THEN Len(arr)
    ELSE LET order == CompareBy(arr[idx], arr[idx - 1], key)
         IN  IF (descending /\ order >= 0) \/ (~descending /\ order < 0)
             THEN idx - 1
             ELSE RunEnd(arr, key, descending, idx + 1)

\* the position, counted from 0, that binary search gives pivot among
\* arr[left + 1 .. right]
RECURSIVE BinarySearch(_, _, _, _, _)
BinarySearch(arr, pivot, key, left, right) ==
    IF left >= right THEN left
    ELSE LET mid == left + ((right - left) \div 2)
         IN  IF CompareBy(pivot, arr[mid + 1], key) < 0
             THEN BinarySearch(arr, pivot, key, left, mid)
             ELSE BinarySearch(arr, pivot, key, mid + 1, right)

\* arr[1 .. start - 1] is sorted; the elements from start on are inserted
RECURSIVE BinaryInsertionSort(_, _, _)
BinaryInsertionSort(arr, key, start) ==
    IF start > Len(arr) THEN arr
    ELSE LET left == BinarySearch(arr, arr[start], key, 0, start - 1)
         IN  BinaryInsertionSort(
                 SubSeq(arr, 1, left) \o <<arr[start]>>
                     \o SubSeq(arr, left + 1, start - 1)
                     \o SubSeq(arr, start + 1, Len(arr)),
                 key, start + 1)

SortDescendingBy(groups, key) ==
    IF Len(groups) < 2 THEN groups
    ELSE LET descending == CompareBy(groups[2], groups[1], key) < 0
             run == RunEnd(groups, key, descending, 3)
             made == IF descending
                     THEN [i \in 1..Len(groups) |->
                              IF i <= run THEN groups[run + 1 - i] ELSE groups[i]]
                     ELSE groups
         IN  BinaryInsertionSort(made, key, run + 1)

\* a sort on the unweighted pipeline revenue
SortGroupsByPipeline(groups) ==
    SortDescendingBy(groups, "pipeline_revenue")

\* .sort((a, b) => b.weighted_revenue - a.weighted_revenue)
SortGroups(groups) ==
    SortDescendingBy(groups, "weighted_revenue")

calculateForecastByOwner(opps) ==
    SortGroups(WithAverages(GroupsByOwner(opps, 1, <<>>)))

calculateForecastByCustomer(opps) ==
    SortGroups(WithAverages(GroupsByCustomer(opps, 1, <<>>)))

GroupRow(owner, customer, charge) ==
    [ organisation_name |-> customer, owner_name |-> owner, starts_at |-> Null,
      charge_total |-> Some(NumFromInt(charge)),
      provisional_cost_total |-> Some(NumFromInt(6000)),
      predicted_cost_total |-> Null, actual_cost_total |-> Null ]

GroupForecast(probability, commit, excluded, revenueOverride) ==
    Some([probability |-> NumFromInt(probability), is_commit |-> commit,
          is_excluded |-> excluded, revenue_override |-> revenueOverride,
          profit_override |-> Null])

\* opportunities of three owners and two customers, some without a name or
\* with an empty one: without forecast, excluded, commit and upside, with
\* and without a revenue override, at probabilities whose weighting is
\* exact (50, 100) and at one whose weighting rounds (7)
GroupCases ==
    { <<GroupRow(Some("Ann"), Some(""), 10000), GroupForecast(50, TRUE, FALSE, Null)>>,
      <<GroupRow(Some(""), Null, 8000), GroupForecast(100, FALSE, FALSE, Null)>>,
      <<GroupRow(Some("Ann"), Some(""), 8000), Null>>,
      <<GroupRow(Some("Ann"), Some(""), 8000), GroupForecast(7, TRUE, FALSE, Null)>>,
      <<GroupRow(Some("Ann"), Some("Acme"), 10000), GroupForecast(7, FALSE, FALSE, Null)>>,
      <<GroupRow(Some("Bob"), Some("Acme"), 10000), GroupForecast(100, TRUE, TRUE, Null)>>,
      <<GroupRow(Null, Some("Acme"), 8000),
        GroupForecast(50, FALSE, FALSE, Some(NumFromInt(9000)))>>,
      <<GroupRow(Some("Bob"), Some("Acme"), 8000), GroupForecast(50, TRUE, FALSE, Null)>> }

\* the rows as the handler enriches them
GroupOpportunities ==
    { enrichOpportunityWithForecast(c[1], c[2]) : c \in GroupCases }

GInit ==
    /\ vopps \in UNION { [1..n -> GroupOpportunities] : n \in 0..MaxGrouped }
    /\ groupByWeek = FALSE
    /\ byOwner = Null
    /\ byCustomer = Null
    /\ byProbabilityBand = Null
    /\ timeSeries = Null

ByOwner ==
    /\ IsNull(byOwner)
    /\ byOwner' = Some(calculateForecastByOwner(vopps))
    /\ UNCHANGED <<vopps, groupByWeek, byCustomer, byProbabilityBand, timeSeries>>
    /\ UNCHANGED <<fvars, hvars, lvars, svars, evars, wvars, zvars>>

ByCustomer ==
    /\ IsNull(byCustomer)
    /\ byCustomer' = Some(calculateForecastByCustomer(vopps))
    /\ UNCHANGED <<vopps, groupByWeek, byOwner, byProbabilityBand, timeSeries>>
    /\ UNCHANGED <<fvars, hvars, lvars, svars, evars, wvars, zvars>>

GNext ==
    \/ ByOwner
    \/ ByCustomer

GroupsInit == GInit /\ FIdle /\ HIdle /\ LIdle /\ SIdle /\ EIdle /\ WIdle /\ ZIdle

SpecGroups ==
    /\ GroupsInit
    /\ [][GNext]_vars


(***************************************************************************)
(* src/unnamed/part_014, lines 297-326: calculateForecastByProbabilityBand *)
(***************************************************************************)

\* src/types/forecast.ts, lines 117-122
PROBABILITY_BANDS ==
    << [label |-> "0-25%", min |-> 0, max |-> 25],
       [label |-> "26-50%", min |-> 26, max |-> 50],
       [label |-> "51-75%", min |-> 51, max |-> 75],
       [label |-> "76-100%", min |-> 76, max |-> 100] >>

\* PROBABILITY_BANDS.map(band => ({...}))
EmptyBands ==
    [k \in 1..Len(PROBABILITY_BANDS) |->
        [ band |-> PROBABILITY_BANDS[k].label,
          min_probability |-> PROBABILITY_BANDS[k].min,
          max_probability |-> PROBABILITY_BANDS[k].max,
          revenue |-> NumZero(FALSE), profit |-> NumZero(FALSE), count |-> 0 ]]

\* a range test that leaves out the upper edge of a band
BandIndexExclusive(bands, prob) ==
    LET hits == {k \in 1..Len(bands) :
                    /\ NumLeq(NumFromInt(bands[k].min_probability), prob)
                    /\ NumLess(prob, NumFromInt(bands[k].max_probability))}
    IN  IF hits = {} THEN 0 ELSE CHOOSE k \in hits : \A h \in hits : k <= h

\* bands.findIndex(b => prob >= b.min_probability && prob <= b.max_probability)
\* as a position from 1, 0 for -1
BandIndex(bands, prob) ==
    LET hits == {k \in 1..Len(bands) :
                    /\ NumLeq(NumFromInt(bands[k].min_probability), prob)
                    /\ NumLeq(prob, NumFromInt(bands[k].max_probability))}
    IN  IF hits = {} THEN 0 ELSE CHOOSE k \in hits : \A h \in hits : k <= h

RECURSIVE BandsFrom(_, _, _)
BandsFrom(opps, i, bands) ==
    IF i > Len(opps) THEN bands
    ELSE IF IsExcluded(opps[i]) \/ IsNull(opps[i].forecast)
    THEN BandsFrom(opps, i + 1, bands)
    ELSE LET bandIndex == BandIndex(bands, Val(opps[i].forecast).probability)
         IN  IF bandIndex # 0
             THEN BandsFrom(opps, i + 1,
                      [bands EXCEPT
                         ![bandIndex].count = @ + 1,
                         ![bandIndex].revenue = NumAdd(@, opps[i].effective_revenue),
                         ![bandIndex].profit = NumAdd(@, opps[i].effective_profit)])
             ELSE BandsFrom(opps, i + 1, bands)

calculateForecastByProbabilityBand(opps) == BandsFrom(opps, 1, EmptyBands)

\* probabilities on both sides of every seam between two bands
BandProbabilities == {0, 25, 26, 50, 51, 75, 76, 100}

BandRow ==
    [ organisation_name |-> Null, owner_name |-> Null, starts_at |-> Null,
      charge_total |-> Some(NumFromInt(8000)),
        provisional_cost_total |-> Some(NumFromInt(6000)),
      predicted_cost_total |-> Null, actual_cost_total |-> Null ]

BandForecasts ==
    { Null,
      Some([probability |-> NumFromInt(75), is_commit |-> TRUE, is_excluded |-> TRUE,
            revenue_override |-> Null, profit_override |-> Null]) }
    \cup { Some([probability |-> NumFromInt(q), is_commit |-> TRUE, is_excluded |-> FALSE,
                 revenue_override |-> Null, profit_override |-> Null]) :
             q \in BandProbabilities }

BandOpportunities ==
    { enrichOpportunityWithForecast(BandRow, f) : f \in BandForecasts }

BInit ==
    /\ vopps \in UNION { [1..n -> BandOpportunities] : n \in 0..MaxOpps }
    /\ groupByWeek = FALSE
    /\ byOwner = Null
    /\ byCustomer = Null
    /\ byProbabilityBand = Null
    /\ timeSeries = Null

ByProbabilityBand ==
    /\ IsNull(byProbabilityBand)
    /\ byProbabilityBand' = Some(calculateForecastByProbabilityBand(vopps))
    /\ UNCHANGED <<vopps, groupByWeek, byOwner, byCustomer, timeSeries>>
    /\ UNCHANGED <<fvars, hvars, lvars, svars, evars, wvars, zvars>>

BNext == ByProbabilityBand

BandsInit == BInit /\ FIdle /\ HIdle /\ LIdle /\ SIdle /\ EIdle /\ WIdle /\ ZIdle

SpecBands ==
    /\ BandsInit
    /\ [][BNext]_vars


(***************************************************************************)
(* src/unnamed/part_014, lines 408-506: calculateForecastTimeSeries.       *)
(* starts_at is Null or Some([y, m, d]), the local calendar date that      *)
(* new Date(opp.starts_at) denotes; the time of day plays no part.         *)
(***************************************************************************)

IsLeapYear(y) == (y % 4 = 0 /\ y % 100 # 0) \/ y % 400 = 0

\* days of the months before month m in a common year
DaysBeforeMonth == <<0, 31, 59, 90, 120, 151, 181, 212, 243, 273, 304, 334>>

DaysInMonth(y, m) ==
    IF m = 2 THEN (IF IsLeapYear(y) THEN 29 ELSE 28)
    ELSE IF m \in {4, 6, 9, 11} THEN 30 ELSE 31

\* Date.UTC(y, m - 1, d) / 86400000: days since 1970-01-01
DaysFromCivil(y, m, d) ==
    LET before == 365 * (y - 1) + ((y - 1) \div 4) - ((y - 1) \div 100)
                      + ((y - 1) \div 400)
        leapDay == IF m > 2 /\ IsLeapYear(y) THEN 1 ELSE 0
    IN  before + DaysBeforeMonth[m] + leapDay + (d - 1) - 719162

\* the calendar date of a day count within a year of year y
CivilFromDays(t, y) ==
    LET yy == CHOOSE c \in {y - 1, y, y + 1} :
                  DaysFromCivil(c, 1, 1) <= t /\ t < DaysFromCivil(c + 1, 1, 1)
        mm == CHOOSE c \in 1..12 :
                  /\ DaysFromCivil(yy, c, 1) <= t
                  /\ t < DaysFromCivil(yy, c, 1) + DaysInMonth(yy, c)
    IN  [y |-> yy, m |-> mm, d |-> t - DaysFromCivil(yy, mm, 1) + 1]

\* getUTCDay / getDay: 0 is Sunday; 1970-01-01 was a Thursday
DayOfWeek(t) == (t + 4) % 7

\* getWeekNumber: the week number of the Thursday of the date's week,
\* counted in the year of that Thursday
getWeekNumber(date) ==
    LET t == DaysFromCivil(date.y, date.m, date.d)
        dayNum == IF DayOfWeek(t) = 0 THEN 7 ELSE DayOfWeek(t)
        thursday == t + 4 - dayNum
        yearStart == DaysFromCivil(CivilFromDays(thursday, date.y).y, 1, 1)
    IN  ((thursday - yearStart) + 1 + 6) \div 7

\* getWeekStartDate: the Monday of the date's week
getWeekStartDate(date) ==
    LET t == DaysFromCivil(date.y, date.m, date.d)
        day == DayOfWeek(t)
    IN  CivilFromDays(t - day + (IF day = 0 THEN -6 ELSE 1), date.y)

MonthNames ==
    <<"Jan", "Feb", "Mar", "Apr", "May", "Jun",
      "Jul", "Aug", "Sep", "Oct", "Nov", "Dec">>

\* `${months[weekStart.getMonth()]} ${weekStart.getDate()}`
formatWeekLabel(date) ==
    LET weekStart == getWeekStartDate(date)
    IN  <<MonthNames[weekStart.m], weekStart.d>>

formatMonthLabel(date) == <<MonthNames[date.m]>>

\* n.toString().padStart(2, '0')
PadStart2(n) == IF n < 10 THEN <<"0">> \o DigitsOf(n) ELSE DigitsOf(n)

\* the period key, as its characters: `${year}-W${week}` with
\* year = date.getFullYear(), or `${year}-${month}`
PeriodKey(date, byWeek) ==
    IF byWeek
    THEN DigitsOf(date.y) \o <<"-", "W">> \o PadStart2(getWeekNumber(date))
    ELSE DigitsOf(date.y) \o <<"-">> \o PadStart2(date.m)

\* collation order of the characters of a period key: punctuation before
\* digits before letters
CharRank(ch) == IF ch = "-" THEN 0 ELSE IF IsDigit(ch) THEN 1 + DigitValue(ch) ELSE 11

\* a.localeCompare(b) <= 0 on period keys
RECURSIVE KeyLeq(_, _)
KeyLeq(a, b) ==
    IF a = <<>> THEN TRUE
    ELSE IF b = <<>> THEN FALSE
    ELSE IF CharRank(Head(a)) # CharRank(Head(b))
    THEN CharRank(Head(a)) < CharRank(Head(b))
    ELSE KeyLeq(Tail(a), Tail(b))

NewPeriod(period, periodLabel) ==
    [ period |-> period, periodLabel |-> periodLabel,
      commit_revenue |-> NumZero(FALSE), upside_revenue |-> NumZero(FALSE), unreviewed_revenue |-> NumZero(FALSE),
      commit_profit |-> NumZero(FALSE), upside_profit |-> NumZero(FALSE), unreviewed_profit |-> NumZero(FALSE) ]

\* a loop body without the test for excluded opportunities
SeriesAddExcludedToo(entry, opp) ==
    IF IsNull(opp.forecast)
    THEN [entry EXCEPT !.unreviewed_revenue = NumAdd(@, opp.charge_total),
                       !.unreviewed_profit = NumAdd(@, opp.base_profit)]
    ELSE IF Val(opp.forecast).is_commit
    THEN [entry EXCEPT !.commit_revenue = NumAdd(@, opp.weighted_revenue),
                       !.commit_profit = NumAdd(@, opp.weighted_profit)]
    ELSE [entry EXCEPT !.upside_revenue = NumAdd(@, opp.weighted_revenue),
                       !.upside_profit = NumAdd(@, opp.weighted_profit)]

\* what the loop body does to the entry of the opportunity's period
\* (lines 483-500)
SeriesAdd(entry, opp) ==
    IF IsExcluded(opp) THEN entry
    ELSE IF IsNull(opp.forecast)
    THEN [entry EXCEPT !.unreviewed_revenue = NumAdd(@, opp.charge_total),
                       !.unreviewed_profit = NumAdd(@, opp.base_profit)]
    ELSE IF Val(opp.forecast).is_commit
    THEN [entry EXCEPT !.commit_revenue = NumAdd(@, opp.weighted_revenue),
                       !.commit_profit = NumAdd(@, opp.weighted_profit)]
    ELSE [entry EXCEPT !.upside_revenue = NumAdd(@, opp.weighted_revenue),
                       !.upside_profit = NumAdd(@, opp.weighted_profit)]

PeriodIndex(entries, period) ==
    IF \E k \in 1..Len(entries) : entries[k].period = period
    THEN CHOOSE k \in 1..Len(entries) : entries[k].period = period
    ELSE 0

\* periodMap after the loop over opps[i..], in insertion order
RECURSIVE PeriodsFrom(_, _, _, _)
PeriodsFrom(opps, byWeek, i, entries) ==
    IF i > Len(opps) THEN entries
    ELSE IF IsNull(opps[i].starts_at) THEN PeriodsFrom(opps, byWeek, i + 1, entries)
    ELSE LET date == Val(opps[i].starts_at)
             period == PeriodKey(date, byWeek)
             periodLabel == IF byWeek THEN formatWeekLabel(date)
                            ELSE formatMonthLabel(date)
             k == PeriodIndex(entries, period)
             had == IF k = 0 THEN Append(entries, NewPeriod(period, periodLabel))
                    ELSE entries
             at == IF k = 0 THEN Len(had) ELSE k
         IN  PeriodsFrom(opps, byWeek, i + 1,
                 [had EXCEPT ![at] = SeriesAdd(@, opps[i])])

\* e inserted behind every entry whose key does not sort after its key
InsertPeriod(sorted, e) ==
    LET n == Cardinality({k \in 1..Len(sorted) : KeyLeq(sorted[k].period, e.period)})
    IN  SubSeq(sorted, 1, n) \o <<e>> \o SubSeq(sorted, n + 1, Len(sorted))

\* .sort((a, b) => a.period.localeCompare(b.period))
RECURSIVE SortPeriods(_, _, _)
SortPeriods(entries, i, sorted) ==
    IF i > Len(entries) THEN sorted
    ELSE SortPeriods(entries, i + 1, InsertPeriod(sorted, entries[i]))

calculateForecastTimeSeries(opps, byWeek) ==
    SortPeriods(PeriodsFrom(opps, byWeek, 1, <<>>), 1, <<>>)

\* start dates around a turn of the year, and no start date
SeriesDates ==
    { Null,
      Some([y |-> 2024, m |-> 1, d |-> 2]),
      Some([y |-> 2024, m |-> 12, d |-> 23]),
      Some([y |-> 2024, m |-> 12, d |-> 30]),
      Some([y |-> 2025, m |-> 1, d |-> 6]),
      Some([y |-> 2025, m |-> 2, d |-> 10]) }

SeriesRows ==
    { [ organisation_name |-> Null, owner_name |-> Null, starts_at |-> at,
        charge_total |-> Some(NumFromInt(8000)),
        provisional_cost_total |-> Some(NumFromInt(6000)),
        predicted_cost_total |-> Null, actual_cost_total |-> Null ] :
      at \in SeriesDates }

\* no forecast, an excluded one, a commit one and an upside one
SeriesForecasts ==
    { Null,
      Some([probability |-> NumFromInt(100), is_commit |-> TRUE, is_excluded |-> TRUE,
            revenue_override |-> Null, profit_override |-> Null]),
      Some([probability |-> NumFromInt(50), is_commit |-> TRUE, is_excluded |-> FALSE,
            revenue_override |-> Null, profit_override |-> Null]),
      Some([probability |-> NumFromInt(100), is_commit |-> FALSE, is_excluded |-> FALSE,
            revenue_override |-> Null, profit_override |-> Null]) }

SeriesOpportunities ==
    { enrichOpportunityWithForecast(r, f) : r \in SeriesRows, f \in SeriesForecasts }

TInit ==
    /\ vopps \in UNION { [1..n -> SeriesOpportunities] : n \in 0..MaxOpps }
    /\ groupByWeek \in BOOLEAN
    /\ byOwner = Null
    /\ byCustomer = Null
    /\ byProbabilityBand = Null
    /\ timeSeries = Null

TimeSeries ==
    /\ IsNull(timeSeries)
    /\ timeSeries' = Some(calculateForecastTimeSeries(vopps, groupByWeek))
    /\ UNCHANGED <<vopps, groupByWeek, byOwner, byCustomer, byProbabilityBand>>
    /\ UNCHANGED <<fvars, hvars, lvars, svars, evars, wvars, zvars>>

TNext == TimeSeries

SeriesInit == TInit /\ FIdle /\ HIdle /\ LIdle /\ SIdle /\ EIdle /\ WIdle /\ ZIdle

SpecSeries ==
    /\ SeriesInit
    /\ [][TNext]_vars


(***************************************************************************)
(* src/lib/eventStore.ts and src/unnamed/part_010: the event store and the *)
(* webhook handler.  An element of the in-memory array is a record with    *)
(* the fields of the ProcessedEvent that the metrics read, and obj: the    *)
(* request whose handler holds this very object, or 0 for an object that   *)
(* JSON.parse made.  timestamp is the rank of arrival.  uptime is left     *)
(* out of the metrics.                                                     *)
(***************************************************************************)

maxEvents == 1000

\* JSON.parse(JSON.stringify(e)): the same fields in a new object
JsonCopy(e) == [e EXCEPT !.obj = 0]

\* loadFromFile: this.events when it returns
loadFromFile(mem, file) ==
    IF IsNull(file) THEN mem ELSE Val(file)

\* saveToFile: the contents of the storage file when it returns
saveToFile(mem) == Some([k \in 1..Len(mem) |-> JsonCopy(mem[k])])

\* an addEvent that never trims
addEventUntrimmed(mem, file, event) == <<event>> \o loadFromFile(mem, file)


\* addEvent: this.events before saveToFile
addEvent(mem, file, event) ==
    LET added == <<event>> \o loadFromFile(mem, file)
    IN  IF Len(added) > maxEvents THEN SubSeq(added, 1, maxEvents) ELSE added

\* getMetrics, after its loadFromFile
getMetrics(loaded) ==
    [ totalEvents |-> Len(loaded),
      successfulEvents |->
          Cardinality({k \in 1..Len(loaded) :
                          loaded[k].processed /\ IsNull(loaded[k].error)}),
      failedEvents |->
          Cardinality({k \in 1..Len(loaded) : ~IsNull(loaded[k].error)}),
      lastEventTime |->
          IF Len(loaded) > 0 THEN Some(loaded[1].timestamp) ELSE Null ]

\* the handler up to its await of rulesEngine.executeRules (lines 14-59),
\* with the catch of lines 74-80. payload is req.body: "nullish" (null or
\* undefined, so that payload.action throws a TypeError), "invalid" (no
\* action, or an action without subject_id) or "valid"
Webhook(r, method, payload) ==
    /\ wpc[r] = "idle"
    /\ IF method # "POST"
       THEN /\ wres' = [wres EXCEPT ![r] = 405]
            /\ wpc' = [wpc EXCEPT ![r] = "done"]
            /\ UNCHANGED <<wevent, events, storageFile>>
       ELSE IF payload = "nullish"
       THEN /\ wres' = [wres EXCEPT ![r] = 500]
            /\ wpc' = [wpc EXCEPT ![r] = "done"]
            /\ UNCHANGED <<wevent, events, storageFile>>
       ELSE IF payload = "invalid"
       THEN /\ wres' = [wres EXCEPT ![r] = 400]
            /\ wpc' = [wpc EXCEPT ![r] = "done"]
            /\ UNCHANGED <<wevent, events, storageFile>>
       ELSE LET processedEvent ==
                    [ id |-> r,
                      timestamp |-> Cardinality({q \in Requests : ~IsNull(wevent[q])}) + 1,
                      processed |-> FALSE, error |-> Null, opportunityId |-> r,
                      obj |-> r ]
                stored_ == addEvent(events, storageFile, processedEvent)
            IN  /\ wevent' = [wevent EXCEPT ![r] = Some(processedEvent)]
                /\ events' = stored_
                /\ storageFile' = saveToFile(stored_)
                /\ wpc' = [wpc EXCEPT ![r] = "rules"]
                /\ UNCHANGED wres
    /\ UNCHANGED metrics
    /\ UNCHANGED <<fvars, hvars, lvars, svars, evars, gvars, zvars>>

\* executeRules settles and the handler answers (lines 59-72): the handler
\* writes to its own processedEvent object
RulesSettled(r, threw) ==
    /\ wpc[r] = "rules"
    /\ LET e == IF threw
                THEN [Val(wevent[r]) EXCEPT !.error = Some("rule failed")]
                ELSE [Val(wevent[r]) EXCEPT !.processed = TRUE]
       IN  /\ wevent' = [wevent EXCEPT ![r] = Some(e)]
           /\ events' = [k \in 1..Len(events) |->
                            IF events[k].obj = r THEN e ELSE events[k]]
    /\ wres' = [wres EXCEPT ![r] = 200]
    /\ wpc' = [wpc EXCEPT ![r] = "done"]
    /\ UNCHANGED <<storageFile, metrics>>
    /\ UNCHANGED <<fvars, hvars, lvars, svars, evars, gvars, zvars>>

\* a call of eventStore.getMetrics()
GetMetrics ==
    /\ events' = loadFromFile(events, storageFile)
    /\ metrics' = Some(getMetrics(events'))
    /\ UNCHANGED <<wpc, wres, wevent, storageFile>>
    /\ UNCHANGED <<fvars, hvars, lvars, svars, evars, gvars, zvars>>

WInit == WIdle

(***************************************************************************)
(* src/lib/eventStore.ts called directly: addEvent, clearEvents and        *)
(* getRecentEvents on a store that is empty or one event short of full.    *)
(***************************************************************************)

\* number of addEvent calls of a run
MaxAdds == 3

\* the event with the given number
StoredEvent(n) ==
    [ id |-> n, timestamp |-> n, processed |-> FALSE, error |-> Null,
      opportunityId |-> 1 + (n % 2), obj |-> 0 ]

\* Array.prototype.slice(0, end)
SliceTo(seq, end) ==
    LET to == IF end < 0 THEN (IF Len(seq) + end < 0 THEN 0 ELSE Len(seq) + end)
              ELSE IF end > Len(seq) THEN Len(seq) ELSE end
    IN  SubSeq(seq, 1, to)

\* getRecentEvents, after its loadFromFile
getRecentEvents(loaded, limit) == SliceTo(loaded, limit)

\* the limits of /api/events: parseInt of the query parameter, 50 without it
Limits == {-1, 0, 1, 2, 50, 1001}

\* getEventById, after its loadFromFile: the first event with the id, Null
\* for undefined
getEventById(loaded, id) ==
    LET ks == {k \in 1..Len(loaded) : loaded[k].id = id}
    IN  IF ks = {} THEN Null
        ELSE Some(loaded[CHOOSE k \in ks : \A j \in ks : k <= j])

\* getEventsByOpportunity, after its loadFromFile
getEventsByOpportunity(loaded, opportunityId) ==
    SelectSeq(loaded, LAMBDA e : e.opportunityId = opportunityId)

\* the ids and the opportunities events are looked up by
LookupIds == {1, 2, maxEvents + 1}
LookupOpportunities == {1, 2}

\* the store after n addEvent calls and nothing else
StoreAfter(n) == [k \in 1..n |-> StoredEvent(n - k + 1)]

QInit ==
    /\ addCount \in {0, maxEvents - 1}
    /\ addedSince = StoreAfter(addCount)
    /\ events = StoreAfter(addCount)
    /\ storageFile = IF addCount = 0 THEN Null ELSE Some(StoreAfter(addCount))
    /\ recent = Null
    /\ found = Null
    /\ wpc = [r \in Requests |-> "idle"]
    /\ wres = [r \in Requests |-> 0]
    /\ wevent = [r \in Requests |-> Null]
    /\ metrics = Null

AddEvent ==
    /\ addCount \in (0..(MaxAdds - 1)) \cup ((maxEvents - 1)..(maxEvents + MaxAdds - 2))
    /\ addCount' = addCount + 1
    /\ events' = addEvent(events, storageFile, StoredEvent(addCount'))
    /\ storageFile' = saveToFile(events')
    /\ addedSince' = <<StoredEvent(addCount')>> \o addedSince
    /\ UNCHANGED <<recent, found, wpc, wres, wevent, metrics>>
    /\ UNCHANGED <<fvars, hvars, lvars, svars, evars, gvars, rvars, yvars>>

ClearEvents ==
    /\ events' = <<>>
    /\ storageFile' = saveToFile(events')
    /\ addedSince' = <<>>
    /\ UNCHANGED <<addCount, recent, found, wpc, wres, wevent, metrics>>
    /\ UNCHANGED <<fvars, hvars, lvars, svars, evars, gvars, rvars, yvars>>

GetRecentEvents(limit) ==
    /\ events' = loadFromFile(events, storageFile)
    /\ recent' = Some(getRecentEvents(events', limit))
    /\ UNCHANGED <<addCount, addedSince, found, storageFile, wpc, wres, wevent,
                   metrics>>
    /\ UNCHANGED <<fvars, hvars, lvars, svars, evars, gvars, rvars, yvars>>

\* a call of eventStore.getEventById(id)
GetEventById(id) ==
    /\ events' = loadFromFile(events, storageFile)
    /\ found' = Some([by |-> "id", result |-> getEventById(events', id)])
    /\ UNCHANGED <<addCount, addedSince, recent, storageFile, wpc, wres, wevent,
                   metrics>>
    /\ UNCHANGED <<fvars, hvars, lvars, svars, evars, gvars, rvars, yvars>>

\* a call of eventStore.getEventsByOpportunity(opportunityId)
GetEventsByOpportunity(opportunityId) ==
    /\ events' = loadFromFile(events, storageFile)
    /\ found' = Some([by |-> "opportunity",
                      result |-> getEventsByOpportunity(events', opportunityId)])
    /\ UNCHANGED <<addCount, addedSince, recent, storageFile, wpc, wres, wevent,
                   metrics>>
    /\ UNCHANGED <<fvars, hvars, lvars, svars, evars, gvars, rvars, yvars>>

QNext ==
    \/ AddEvent
    \/ ClearEvents
    \/ \E limit \in Limits : GetRecentEvents(limit)
    \/ \E id \in LookupIds : GetEventById(id)
    \/ \E opportunityId \in LookupOpportunities : GetEventsByOpportunity(opportunityId)

StoreInit ==
    QInit /\ FIdle /\ HIdle /\ LIdle /\ SIdle /\ EIdle /\ GIdle /\ RIdle /\ YIdle

SpecStore ==
    /\ StoreInit
    /\ [][QNext]_vars

\* the webhook handler with the reads of the store the other routes make
WNext ==
    \/ \E r \in Requests : \E method \in {"POST", "GET"} :
           \E payload \in {"nullish", "invalid", "valid"} : Webhook(r, method, payload)
    \/ \E r \in Requests : \E threw \in BOOLEAN : RulesSettled(r, threw)
    \/ GetMetrics
    \/ \E limit \in Limits : GetRecentEvents(limit)
    \/ \E id \in LookupIds : GetEventById(id)
    \/ \E opportunityId \in LookupOpportunities : GetEventsByOpportunity(opportunityId)

WebhookInit == WInit /\ FIdle /\ HIdle /\ LIdle /\ SIdle /\ EIdle /\ GIdle /\ ZIdle

SpecWebhook ==
    /\ WebhookInit
    /\ [][WNext]_vars



(***************************************************************************)
(* src/unnamed/part_015: BusinessRulesEngine.  A rule is a record of its   *)
(* id, its trigger (actionTypes and statusChanges, each Null when absent), *)
(* enabled, and what its action does when awaited: "resolves" or           *)
(* "rejects".                                                              *)
(***************************************************************************)

\* number of registerRule calls after the module has loaded
MaxRegistrations == 2

Includes(seq, x) == \E k \in 1..Len(seq) : seq[k] = x

\* rules registered by the application
CustomRules ==
    { [ id |-> "on-reserved", actionTypes |-> Null,
        statusChanges |-> Some(<<[from |-> Null, to |-> "reserved"]>>),
        enabled |-> TRUE, action |-> "resolves" ],
      [ id |-> "from-provisional", actionTypes |-> Some(<<"update">>),
        statusChanges |-> Some(<<[from |-> Some("quote"), to |-> "reserved"],
                                 [from |-> Some("provisional"), to |-> "reserved"]>>),
        enabled |-> TRUE, action |-> "rejects" ],
      [ id |-> "switched-off", actionTypes |-> Some(<<>>),
        statusChanges |-> Some(<<>>),
        enabled |-> FALSE, action |-> "resolves" ],
      [ id |-> "log-status-changes", actionTypes |-> Some(<<"update">>),
        statusChanges |-> Some(<<[from |-> Some(""), to |-> "reserved"]>>),
        enabled |-> TRUE, action |-> "rejects" ] }

\* the fields of a ProcessedEvent that the triggers read
RuleEvents ==
    [ actionType : {"update", "mark_as_reserved", "convert_to_order"},
      previousStatus : {Null, Some("provisional")},
      newStatus : {Null, Some("reserved")} ]

\* this.rules.set(rule.id, rule): a known id keeps its place in the Map
registerRule(map, rule) ==
    IF \E k \in 1..Len(map) : map[k].id = rule.id
    THEN [k \in 1..Len(map) |-> IF map[k].id = rule.id THEN rule ELSE map[k]]
    ELSE Append(map, rule)

\* this.rules.delete(ruleId)
unregisterRule(map, ruleId) ==
    SelectSeq(map, LAMBDA r : r.id # ruleId)

\* a filter that reads the action types of the trigger only
RuleAppliesByActionType(rule, event) ==
    ~( /\ ~IsNull(rule.actionTypes)
       /\ Len(Val(rule.actionTypes)) > 0
       /\ ~Includes(Val(rule.actionTypes), event.actionType) )

\* the filter of getApplicableRules (lines 50-72)
RuleApplies(rule, event) ==
    IF /\ ~IsNull(rule.actionTypes)
       /\ Len(Val(rule.actionTypes)) > 0
       /\ ~Includes(Val(rule.actionTypes), event.actionType)
    THEN FALSE
    ELSE IF /\ ~IsNull(rule.statusChanges)
            /\ Len(Val(rule.statusChanges)) > 0
            /\ ~\E k \in 1..Len(Val(rule.statusChanges)) :
                    LET change == Val(rule.statusChanges)[k]
                        fromMatches == \/ IsNull(change.from)
                                       \/ Val(change.from) = ""
                                       \/ change.from = event.previousStatus
                        toMatches == Some(change.to) = event.newStatus
                    IN  fromMatches /\ toMatches
    THEN FALSE
    ELSE TRUE

getApplicableRules(map, event) ==
    SelectSeq(map, LAMBDA r : RuleApplies(r, event))

\* the next position from i on whose rule is enabled, Len + 1 when none
NextEnabled(queue, i) ==
    IF \E k \in i..Len(queue) : queue[k].enabled
    THEN CHOOSE k \in i..Len(queue) :
             queue[k].enabled /\ \A j \in i..(k - 1) : ~queue[j].enabled
    ELSE Len(queue) + 1

\* the loop goes on from position i: it starts the action of the next
\* enabled rule and awaits it, or the method returns
LoopFrom(queue, i, log) ==
    LET k == NextEnabled(queue, i)
    IN  IF k > Len(queue)
        THEN /\ xpc' = "returned"
             /\ xi' = k
             /\ xpending' = {}
             /\ xlog' = log
        ELSE /\ xpc' = "awaiting"
             /\ xi' = k
             /\ xpending' = {queue[k].id}
             /\ xlog' = Append(log, queue[k].id)

RInit == RIdle

RegisterRule(rule) ==
    /\ registrations < MaxRegistrations
    /\ registrations' = registrations + 1
    /\ rules' = registerRule(rules, rule)
    /\ UNCHANGED <<xpc, xevent, xrules, applicableRules, xi, xpending, xlog>>
    /\ UNCHANGED <<fvars, hvars, lvars, svars, evars, gvars, wvars, qvars, yvars>>

UnregisterRule(ruleId) ==
    /\ \E k \in 1..Len(rules) : rules[k].id = ruleId
    /\ rules' = unregisterRule(rules, ruleId)
    /\ UNCHANGED <<registrations, xpc, xevent, xrules, applicableRules, xi, xpending, xlog>>
    /\ UNCHANGED <<fvars, hvars, lvars, svars, evars, gvars, wvars, qvars, yvars>>

\* executeRules is called: it runs up to its first await
ExecuteRules(event) ==
    /\ xpc # "awaiting"
    /\ xevent' = Some(event)
    /\ xrules' = rules
    /\ applicableRules' = getApplicableRules(rules, event)
    /\ LoopFrom(applicableRules', 1, <<>>)
    /\ UNCHANGED <<rules, registrations>>
    /\ UNCHANGED <<fvars, hvars, lvars, svars, evars, gvars, wvars, qvars, yvars>>

\* the awaited action settles: a rejection is logged and thrown again, a
\* resolution lets the loop go on
ActionSettles ==
    /\ xpc = "awaiting"
    /\ IF applicableRules[xi].action = "rejects"
       THEN /\ xpc' = "threw"
            /\ xpending' = {}
            /\ UNCHANGED <<xi, xlog>>
       ELSE LoopFrom(applicableRules, xi + 1, xlog)
    /\ UNCHANGED <<rules, registrations, xevent, xrules, applicableRules>>
    /\ UNCHANGED <<fvars, hvars, lvars, svars, evars, gvars, wvars, qvars, yvars>>

RNext ==
    \/ \E rule \in CustomRules : RegisterRule(rule)
    \/ \E ruleId \in {"log-status-changes", "validate-reserved-orders", "on-reserved"} :
           UnregisterRule(ruleId)
    \/ \E event \in RuleEvents : ExecuteRules(event)
    \/ ActionSettles

RulesInit ==
    RInit /\ FIdle /\ HIdle /\ LIdle /\ SIdle /\ EIdle /\ GIdle /\ WIdle /\ QIdle
    /\ YIdle

SpecRules ==
    /\ RulesInit
    /\ [][RNext]_vars


(***************************************************************************)
(* src/lib/opportunitySync.ts: OpportunitySync.initialSync (lines 29-141)  *)
(* and incrementalSync (lines 167-279)                                     *)
(***************************************************************************)

\* largest number of opportunities one fetch brings
MaxFetched == 2

\* number of sync runs
MaxSyncs == 2

SyncOppIds == 1..MaxFetched

\* what getAllOpportunities and getUpdatedOpportunities resolve with: the
\* opportunities of Current RMS that match, each once, in the order of the API
FetchedLists ==
    { s \in UNION {[1..n -> SyncOppIds] : n \in 0..MaxFetched} :
        \A i, j \in DOMAIN s : s[i] = s[j] => i = j }

\* number of runs started so far
RunNumber == IF IsNull(sync) THEN 0 ELSE Val(sync).run

\* the local variables of a run when it starts; attempted is history: the
\* opportunities given to upsertOpportunity, in order
NewRun(type, first) ==
    [ run |-> RunNumber + 1, sync_type |-> type, pc |-> first,
      since |-> Null, syncId |-> Null, opportunities |-> <<>>, i |-> 0,
      recordsSynced |-> 0, recordsFailed |-> 0, attempted |-> <<>>,
      error |-> "none", result |-> Null ]

SyncEnded ==
    IF IsNull(sync) THEN TRUE ELSE Val(sync).pc \in {"returned", "rejected"}

\* SELECT completed_at ... WHERE status = 'completed' ORDER BY completed_at
\* DESC LIMIT 1: the runs end one after the other, so it is the completed
\* row with the largest id (Null: no row, `since` is 24 hours ago)
LastCompleted(rows) ==
    LET done == {k \in DOMAIN rows : rows[k].status = "completed"}
    IN  IF done = {} THEN Null
        ELSE Some(CHOOSE k \in done : \A j \in done : j <= k)

\* INSERT INTO sync_metadata (sync_type, status, started_at, metadata)
RunningRow(run) ==
    [ sync_type |-> run.sync_type, status |-> "running",
      records_synced |-> 0, records_failed |-> 0, error |-> "none",
      metadata |-> run.since ]

\* UPDATE sync_metadata SET status = ..., records_synced = ...,
\* records_failed = ... [, error = ...] WHERE id = syncId
UpdatedRow(row, run, status) ==
    [row EXCEPT !.status = status,
                !.records_synced = run.recordsSynced,
                !.records_failed = run.recordsFailed,
                !.error = run.error]

\* the SyncResult of the two return statements
SyncResult(run, success) ==
    [ success |-> success, syncId |-> run.syncId,
      recordsSynced |-> run.recordsSynced,
      recordsFailed |-> run.recordsFailed, error |-> run.error ]

YInit ==
    /\ sync = Null
    /\ syncMetadata = <<>>
    /\ opportunitiesTable = {}
    /\ lastWebhookAt = {}
    /\ single = Null

\* initialSync is called: it issues the INSERT of its sync record
InitialSync ==
    /\ SyncEnded
    /\ RunNumber < MaxSyncs
    /\ sync' = Some(NewRun("initial_sync", "inserting"))
    /\ UNCHANGED <<syncMetadata, opportunitiesTable>>
    /\ UNCHANGED <<lastWebhookAt, single>>
    /\ UNCHANGED <<fvars, hvars, lvars, svars, evars, gvars, wvars, rvars, qvars>>

\* incrementalSync is called: it issues the SELECT of the last completed run
IncrementalSync ==
    /\ SyncEnded
    /\ RunNumber < MaxSyncs
    /\ sync' = Some(NewRun("incremental_sync", "selecting"))
    /\ UNCHANGED <<syncMetadata, opportunitiesTable>>
    /\ UNCHANGED <<lastWebhookAt, single>>
    /\ UNCHANGED <<fvars, hvars, lvars, svars, evars, gvars, wvars, rvars, qvars>>

\* lines 175-186: the SELECT settles
SelectLastSync(ok) ==
    /\ ~IsNull(sync)
    /\ Val(sync).pc = "selecting"
    /\ sync' = Some(IF ok
                    THEN [Val(sync) EXCEPT !.pc = "inserting",
                                           !.since = LastCompleted(syncMetadata)]
                    ELSE [Val(sync) EXCEPT !.pc = "catch", !.error = "select"])
    /\ UNCHANGED <<syncMetadata, opportunitiesTable>>
    /\ UNCHANGED <<lastWebhookAt, single>>
    /\ UNCHANGED <<fvars, hvars, lvars, svars, evars, gvars, wvars, rvars, qvars>>

\* lines 44-59 and 189-200: the INSERT settles; with the id of the new row
\* the run asks Current RMS for the opportunities
InsertSyncRecord(ok) ==
    /\ ~IsNull(sync)
    /\ Val(sync).pc = "inserting"
    /\ IF ok
       THEN /\ syncMetadata' = Append(syncMetadata, RunningRow(Val(sync)))
            /\ sync' = Some([Val(sync) EXCEPT !.pc = "fetching",
                                 !.syncId = Some(Len(syncMetadata) + 1)])
       ELSE /\ sync' = Some([Val(sync) EXCEPT !.pc = "catch", !.error = "insert"])
            /\ UNCHANGED syncMetadata
    /\ UNCHANGED opportunitiesTable
    /\ UNCHANGED <<lastWebhookAt, single>>
    /\ UNCHANGED <<fvars, hvars, lvars, svars, evars, gvars, wvars, rvars, qvars>>

\* lines 59-66 and 200-208: the fetch resolves; the loop gives the first
\* opportunity to upsertOpportunity, or, with none fetched, the run issues
\* the UPDATE that completes it
SyncFetchResolves(list) ==
    /\ ~IsNull(sync)
    /\ Val(sync).pc = "fetching"
    /\ sync' = Some([Val(sync) EXCEPT
                        !.opportunities = list,
                        !.i = 1,
                        !.pc = IF list = <<>> THEN "completing" ELSE "upserting"])
    /\ UNCHANGED <<syncMetadata, opportunitiesTable>>
    /\ UNCHANGED <<lastWebhookAt, single>>
    /\ UNCHANGED <<fvars, hvars, lvars, svars, evars, gvars, wvars, rvars, qvars>>

\* the fetch rejects (no credentials, network error, answer not ok)
SyncFetchRejects ==
    /\ ~IsNull(sync)
    /\ Val(sync).pc = "fetching"
    /\ sync' = Some([Val(sync) EXCEPT !.pc = "catch", !.error = "fetch"])
    /\ UNCHANGED <<syncMetadata, opportunitiesTable>>
    /\ UNCHANGED <<lastWebhookAt, single>>
    /\ UNCHANGED <<fvars, hvars, lvars, svars, evars, gvars, wvars, rvars, qvars>>

\* lines 64-89 and 206-229: the upsert of opportunities[i] settles; the loop
\* counts it and goes on to the next opportunity, or the run issues the
\* UPDATE that completes it
UpsertOpportunity(ok) ==
    /\ ~IsNull(sync)
    /\ Val(sync).pc = "upserting"
    /\ LET run == Val(sync)
           opp == run.opportunities[run.i]
       IN  /\ sync' = Some([run EXCEPT
                   !.attempted = Append(@, opp),
                   !.recordsSynced = IF ok THEN @ + 1 ELSE @,
                   !.recordsFailed = IF ok THEN @ ELSE @ + 1,
                   !.i = @ + 1,
                   !.pc = IF run.i = Len(run.opportunities)
                          THEN "completing" ELSE "upserting"])
           /\ opportunitiesTable' =
                  IF ok THEN opportunitiesTable \cup {opp} ELSE opportunitiesTable
    /\ UNCHANGED syncMetadata
    /\ UNCHANGED <<lastWebhookAt, single>>
    /\ UNCHANGED <<fvars, hvars, lvars, svars, evars, gvars, wvars, rvars, qvars>>

\* lines 91-114 and 231-252: the UPDATE to 'completed' settles
CompleteSync(ok) ==
    /\ ~IsNull(sync)
    /\ Val(sync).pc = "completing"
    /\ LET run == Val(sync)
       IN  IF ok
           THEN /\ syncMetadata' =
                       [syncMetadata EXCEPT ![Val(run.syncId)] =
                           UpdatedRow(@, run, "completed")]
                /\ sync' = Some([run EXCEPT !.pc = "returned",
                                            !.result = Some(SyncResult(run, TRUE))])
           ELSE /\ sync' = Some([run EXCEPT !.pc = "catch", !.error = "update"])
                /\ UNCHANGED syncMetadata
    /\ UNCHANGED opportunitiesTable
    /\ UNCHANGED <<lastWebhookAt, single>>
    /\ UNCHANGED <<fvars, hvars, lvars, svars, evars, gvars, wvars, rvars, qvars>>

\* lines 116-140 and 254-278: the outer catch block; with a syncId it awaits
\* the UPDATE to 'failed', which settles, and nothing catches its rejection
CatchSync(ok) ==
    /\ ~IsNull(sync)
    /\ Val(sync).pc = "catch"
    /\ LET run == Val(sync)
       IN  IF IsNull(run.syncId)
           THEN /\ ok
                /\ sync' = Some([run EXCEPT !.pc = "returned",
                                            !.result = Some(SyncResult(run, FALSE))])
                /\ UNCHANGED syncMetadata
           ELSE IF ok
           THEN /\ syncMetadata' =
                       [syncMetadata EXCEPT ![Val(run.syncId)] =
                           UpdatedRow(@, run, "failed")]
                /\ sync' = Some([run EXCEPT !.pc = "returned",
                                            !.result = Some(SyncResult(run, FALSE))])
           ELSE /\ sync' = Some([run EXCEPT !.pc = "rejected"])
                /\ UNCHANGED syncMetadata
    /\ UNCHANGED opportunitiesTable
    /\ UNCHANGED <<lastWebhookAt, single>>
    /\ UNCHANGED <<fvars, hvars, lvars, svars, evars, gvars, wvars, rvars, qvars>>

\* the ids syncOpportunity is called with: one the fetches bring and one
\* they never bring
SingleOppIds == {1, MaxFetched + 1}

SingleEnded ==
    IF IsNull(single) THEN TRUE ELSE Val(single).pc \in {"returned", "rejected"}

\* lines 146-150: syncOpportunity is called; it asks Current RMS for the
\* opportunity and waits
SyncOpportunity(opportunityId) ==
    /\ SingleEnded
    /\ single' = Some([opportunityId |-> opportunityId, pc |-> "getting"])
    /\ UNCHANGED <<sync, syncMetadata, opportunitiesTable, lastWebhookAt>>
    /\ UNCHANGED <<fvars, hvars, lvars, svars, evars, gvars, wvars, rvars, qvars>>

\* lines 150-152: getOpportunity settles; with the opportunity the call
\* issues the upsert, and a rejection rejects the call
GetOpportunity(ok) ==
    /\ ~IsNull(single)
    /\ Val(single).pc = "getting"
    /\ single' = Some([Val(single) EXCEPT !.pc = IF ok THEN "upserting" ELSE "rejected"])
    /\ UNCHANGED <<sync, syncMetadata, opportunitiesTable, lastWebhookAt>>
    /\ UNCHANGED <<fvars, hvars, lvars, svars, evars, gvars, wvars, rvars, qvars>>

\* lines 152-159: the upsert settles; the row is written and the call issues
\* the UPDATE of last_webhook_at, or the call rejects
UpsertSingleOpportunity(ok) ==
    /\ ~IsNull(single)
    /\ Val(single).pc = "upserting"
    /\ single' = Some([Val(single) EXCEPT !.pc = IF ok THEN "updating" ELSE "rejected"])
    /\ opportunitiesTable' =
           IF ok THEN opportunitiesTable \cup {Val(single).opportunityId}
           ELSE opportunitiesTable
    /\ UNCHANGED <<sync, syncMetadata, lastWebhookAt>>
    /\ UNCHANGED <<fvars, hvars, lvars, svars, evars, gvars, wvars, rvars, qvars>>

\* lines 155-162: the UPDATE of last_webhook_at settles; it changes the row
\* with the id, and the call returns, or the call rejects
UpdateLastWebhookAt(ok) ==
    /\ ~IsNull(single)
    /\ Val(single).pc = "updating"
    /\ single' = Some([Val(single) EXCEPT !.pc = IF ok THEN "returned" ELSE "rejected"])
    /\ lastWebhookAt' =
           IF ok THEN lastWebhookAt \cup ({Val(single).opportunityId} \cap opportunitiesTable)
           ELSE lastWebhookAt
    /\ UNCHANGED <<sync, syncMetadata, opportunitiesTable>>
    /\ UNCHANGED <<fvars, hvars, lvars, svars, evars, gvars, wvars, rvars, qvars>>

YNext ==
    \/ InitialSync
    \/ IncrementalSync
    \/ \E ok \in BOOLEAN : SelectLastSync(ok)
    \/ \E ok \in BOOLEAN : InsertSyncRecord(ok)
    \/ \E list \in FetchedLists : SyncFetchResolves(list)
    \/ SyncFetchRejects
    \/ \E ok \in BOOLEAN : UpsertOpportunity(ok)
    \/ \E ok \in BOOLEAN : CompleteSync(ok)
    \/ \E ok \in BOOLEAN : CatchSync(ok)
    \/ \E opportunityId \in SingleOppIds : SyncOpportunity(opportunityId)
    \/ \E ok \in BOOLEAN : GetOpportunity(ok)
    \/ \E ok \in BOOLEAN : UpsertSingleOpportunity(ok)
    \/ \E ok \in BOOLEAN : UpdateLastWebhookAt(ok)

SyncInit ==
    YInit /\ FIdle /\ HIdle /\ LIdle /\ SIdle /\ EIdle /\ GIdle /\ WIdle /\ RIdle
    /\ QIdle

SpecSync ==
    /\ SyncInit
    /\ [][YNext]_vars


(***************************************************************************)
(* Claims about calculateForecastSummary (checked under SpecForecast)      *)
(***************************************************************************)

\* what one loop iteration did to the summary: the fields it changed, the
\* count it added to a counter, and a money field being the old one plus x
SummaryChanged == {f \in DOMAIN summary : summary'[f] # summary[f]}
SummaryDelta(f) == summary'[f] - summary[f]
SummaryAdded(f, x) == summary'[f] = NumAdd(summary[f], x)

\* C1: after any number of loop iterations every processed opportunity is
\* counted in exactly one of excluded, unreviewed, commit, upside: the four
\* counts add up to the number of opportunities processed (the input length
\* once the loop is done), and total_pipeline_count = commit_count +
\* upside_count.
C1_CountsPartitionInput ==
    /\ summary.excluded_count + summary.unreviewed_count
         + summary.commit_count + summary.upside_count = fi
    /\ summary.total_pipeline_count = summary.commit_count + summary.upside_count

\* a finished run over two opportunities, one excluded and one committed
C1_Witness ==
    /\ fi = Len(opportunities)
    /\ fi >= 2
    /\ summary.excluded_count = 1
    /\ summary.commit_count = 1

\* C2: each loop iteration applies the buckets in the order excluded >
\* unreviewed > reviewed. An excluded opportunity changes only excluded_count
\* and excluded_revenue; one without forecast changes only unreviewed_count
\* and unreviewed_revenue, by its unweighted charge_total; any other adds its
\* effective values to total_pipeline_*, its weighted values to weighted_*
\* and to exactly one of commit_* / upside_*, chosen by is_commit.
C2_BucketPriority ==
    [][ fi' = fi + 1 =>
        LET o == opportunities[fi'] IN
        IF ~IsNull(o.forecast) /\ Val(o.forecast).is_excluded
        THEN /\ SummaryChanged \subseteq {"excluded_count", "excluded_revenue"}
             /\ SummaryDelta("excluded_count") = 1
        ELSE IF IsNull(o.forecast)
        THEN /\ SummaryChanged \subseteq {"unreviewed_count", "unreviewed_revenue"}
             /\ SummaryDelta("unreviewed_count") = 1
             /\ SummaryAdded("unreviewed_revenue", o.charge_total)
        ELSE /\ SummaryDelta("total_pipeline_count") = 1
             /\ SummaryAdded("total_pipeline_revenue", o.effective_revenue)
             /\ SummaryAdded("total_pipeline_profit", o.effective_profit)
             /\ SummaryAdded("weighted_revenue", o.weighted_revenue)
             /\ SummaryAdded("weighted_profit", o.weighted_profit)
             /\ SummaryChanged \cap {"excluded_count", "excluded_revenue",
                                     "unreviewed_count", "unreviewed_revenue"} = {}
             /\ IF Val(o.forecast).is_commit
                THEN /\ SummaryDelta("commit_count") = 1
                     /\ SummaryAdded("commit_revenue", o.weighted_revenue)
                     /\ SummaryAdded("commit_profit", o.weighted_profit)
                     /\ SummaryChanged \cap {"upside_count", "upside_revenue",
                                             "upside_profit"} = {}
                ELSE /\ SummaryDelta("upside_count") = 1
                     /\ SummaryAdded("upside_revenue", o.weighted_revenue)
                     /\ SummaryAdded("upside_profit", o.weighted_profit)
                     /\ SummaryChanged \cap {"commit_count", "commit_revenue",
                                             "commit_profit"} = {}
      ]_vars

\* an excluded opportunity classified commit, then an unreviewed one with
\* charge_total 8000, have both been processed
C2_Witness ==
    /\ fi = 2
    /\ ~IsNull(opportunities[1].forecast)
    /\ Val(opportunities[1].forecast).is_excluded
    /\ Val(opportunities[1].forecast).is_commit
    /\ IsNull(opportunities[2].forecast)
    /\ opportunities[2].charge_total = NumFromInt(8000)
    /\ summary.excluded_count = 1
    /\ summary.unreviewed_revenue = NumFromInt(8000)
    /\ summary.commit_count = 0

\* C3 (as claimed): when the loop is done, total_pipeline_count is the number
\* of input opportunities that are not marked is_excluded.
C3_PipelineCountsNonExcluded ==
    fi = Len(opportunities) =>
        summary.total_pipeline_count =
            Cardinality({i \in 1..Len(opportunities) :
                ~(/\ ~IsNull(opportunities[i].forecast)
                  /\ Val(opportunities[i].forecast).is_excluded)})


(***************************************************************************)
(* Claims about the risk scoring engine                                    *)
(***************************************************************************)

\* the handler was given a PATCH with an id and a body, so it validated the
\* factor scores of that body
Validated ==
    /\ hpc # "idle"
    /\ Val(hreq).method = "PATCH"
    /\ ~IsNull(Val(hreq).id)
    /\ ~IsNull(Val(hreq).body)

SubmittedScores == Val(Val(hreq).body).scores

\* every submitted score is one of 1, 2, 3, 4, 5 (in halves)
AllScoresInScale ==
    \A f \in FactorIds :
        IsNull(SubmittedScores[f]) \/ Val(SubmittedScores[f]) \in {2, 4, 6, 8, 10}

RECURSIVE SumTo(_, _)
SumTo(fn, n) == IF n = 0 THEN 0 ELSE fn[n] + SumTo(fn, n - 1)

\* sum of weight_i over the scored factors, in tenths
ScoredWeight ==
    SumTo([i \in 1..Len(RISK_FACTORS) |->
              IF IsNull(SubmittedScores[RISK_FACTORS[i].id]) THEN 0
              ELSE RISK_FACTORS[i].weight], Len(RISK_FACTORS))

\* sum of score_i * weight_i over the scored factors, in halves of tenths
ScoredWeightedSum ==
    SumTo([i \in 1..Len(RISK_FACTORS) |->
              IF IsNull(SubmittedScores[RISK_FACTORS[i].id]) THEN 0
              ELSE Val(SubmittedScores[RISK_FACTORS[i].id]) * RISK_FACTORS[i].weight],
          Len(RISK_FACTORS))

Abs(x) == IF x < 0 THEN -x ELSE x

\* C4: the score the handler recalculates with calculateRiskScore is the
\* weighted mean of the scored factors only, sum(score_i * weight_i) /
\* sum(weight_i), rounded to two decimals (it is within half a hundredth of
\* the exact mean); it is 0 when no factor is scored; and with only the
\* factors of weight 1.2 and 1.3 scored 1 and 5 it is 3.08.
C4_WeightedMeanOfScored ==
    (Validated /\ AllScoresInScale) =>
        LET r == Val(Val(riskData).risk_score) IN
        /\ ScoredWeight = 0 => r = 0
        /\ ScoredWeight > 0 =>
             Abs(2 * ScoredWeight * r - 100 * ScoredWeightedSum) <= ScoredWeight
        /\ ( SubmittedScores =
               [f \in FactorIds |->
                  IF f = "risk_project_novelty" THEN Some(2)
                  ELSE IF f = "risk_technical_complexity" THEN Some(10)
                  ELSE Null] ) => r = 308

\* the handler recalculated the score of the body {1.2-factor: 1, 1.3-factor: 5}
C4_Witness ==
    /\ Validated
    /\ SubmittedScores["risk_project_novelty"] = Some(2)
    /\ SubmittedScores["risk_technical_complexity"] = Some(10)
    /\ ScoredWeight = 25
    /\ Val(riskData).risk_score = Some(308)

\* C6: validateRiskScores fails exactly when some present score is not an
\* integer in 1..5 (0, 6, -1, 3.5), whatever the other scores are: the
\* handler answers "Invalid risk scores" for such a body and for no other,
\* in particular not for a body without scores.
C6_RejectsWholeAssessment ==
    Validated =>
        ( (~IsNull(hres) /\ Val(hres).error = "Invalid risk scores")
          <=> ~AllScoresInScale )

\* a body with one score in the scale and one fractional score was rejected
C6_Witness ==
    /\ Validated
    /\ \E f, g \in FactorIds :
         /\ SubmittedScores[f] = Some(7)
         /\ SubmittedScores[g] = Some(10)
    /\ Val(hres).error = "Invalid risk scores"

\* C7: a body that fails validation is answered 400 and nothing is sent to
\* Current RMS; an update request is only sent for a body whose scores all
\* passed validation, and it carries the submitted scores with risk_score and
\* risk_level recomputed from them, not the values of the client.
C7_RejectedNeverSent ==
    /\ (Validated /\ ~AllScoresInScale) =>
          /\ hsent = Null
          /\ ~IsNull(hres)
          /\ Val(hres).status = 400
    /\ ~IsNull(hsent) =>
          /\ Validated
          /\ AllScoresInScale
          /\ Val(hsent).custom_fields.scores = SubmittedScores
          /\ LET score == calculateRiskScore(SubmittedScores) IN
             /\ Val(hsent).custom_fields.risk_score = Some(score)
             /\ Val(hsent).custom_fields.risk_level =
                   (IF getRiskLevel(score) = "null" THEN "" ELSE getRiskLevel(score))

\* an update was sent and accepted, with a risk_score and risk_level that
\* differ from the ones the client supplied
C7_Witness ==
    /\ hpc = "done"
    /\ ~IsNull(hsent)
    /\ Val(hres).status = 200
    /\ Val(hsent).custom_fields.risk_score # Val(Val(hreq).body).risk_score
    /\ Val(hsent).custom_fields.risk_level = "LOW"

Rank(level) == CHOOSE i \in 1..Len(RiskLevels) : RiskLevels[i] = level

\* C5 (as claimed): getRiskLevel gives null for 0, LOW for any other score up
\* to and including 2.0, MEDIUM in (2.0, 3.0], HIGH in (3.0, 4.0], CRITICAL
\* above 4.0, and over every score it is given the level does not fall when
\* the score does not fall (null < LOW < MEDIUM < HIGH < CRITICAL).
C5_LevelBandsMonotonic ==
    /\ [] /\ (lout.level = "null") <=> (lscore = 0)
          /\ (lout.level = "LOW") <=> (lscore <= 200 /\ lscore # 0)
          /\ (lout.level = "MEDIUM") <=> (lscore \in 201..300)
          /\ (lout.level = "HIGH") <=> (lscore \in 301..400)
          /\ (lout.level = "CRITICAL") <=> (lscore > 400)
    /\ [][lscore' >= lscore => Rank(lout'.level) >= Rank(lout.level)]_vars

\* the ApprovalThresholds tier that carries a level
TierOfLevel(level) ==
    CASE level = "LOW" -> lthresholds.low
      [] level = "MEDIUM" -> lthresholds.medium
      [] level = "HIGH" -> lthresholds.high
      [] level = "CRITICAL" -> lthresholds.critical

\* C8: with the default thresholds getApprovalLevelWithThresholds returns
\* the level of getRiskLevel and an approver named as getApprovalLevel
\* names it; with any thresholds the approver record of a non-null level is
\* the record of that level's tier.
C8_ThresholdsMatchHardcoded ==
    /\ lthresholds = DefaultThresholds =>
          /\ lout.tier.level = lout.level
          /\ lout.tier.approver.approverName = lout.approval
    /\ lout.tier.level # "null" =>
          lout.tier.approver = TierOfLevel(lout.tier.level)

\* the tier of a score on the edge of the low band, default thresholds
C8_Witness ==
    /\ lthresholds = DefaultThresholds
    /\ lscore = 200
    /\ lout.tier.level = "LOW"
    /\ lout.tier.approver.approverName = "Project Manager"


\* the level of the first tier among low, medium, high whose maxScore is at
\* least the score, CRITICAL when there is none
FirstTierLevel(score, thresholds) ==
    LET tiers == <<<<"LOW", thresholds.low>>, <<"MEDIUM", thresholds.medium>>,
                   <<"HIGH", thresholds.high>>>>
        fits == {i \in 1..3 : tiers[i][2].maxScore >= score}
    IN  IF fits = {} THEN "CRITICAL"
        ELSE tiers[CHOOSE i \in fits : \A j \in fits : i <= j][1]

Ordered(thresholds) ==
    /\ thresholds.low.maxScore < thresholds.medium.maxScore
    /\ thresholds.medium.maxScore < thresholds.high.maxScore

\* every level but null is the level of some score
AllFourReachable(thresholds) ==
    \A level \in {"LOW", "MEDIUM", "HIGH", "CRITICAL"} :
        \E s \in ScoreInputs :
            getApprovalLevelWithThresholds(s, thresholds).level = level

\* C22 (as claimed): for any thresholds the level of a non-zero score is that
\* of the first tier among low, medium, high whose maxScore is at least the
\* score, else CRITICAL; with low.max < medium.max < high.max each of LOW,
\* MEDIUM, HIGH, CRITICAL is the level of some score, and over every score
\* the level does not fall when the score rises (null, the level of 0, below
\* LOW).
C22_MonotonicOverEveryScore ==
    /\ [] /\ lscore # 0 => lout.tier.level = FirstTierLevel(lscore, lthresholds)
          /\ Ordered(lthresholds) => AllFourReachable(lthresholds)
    /\ [][ (Ordered(lthresholds) /\ lscore' >= lscore)
           => Rank(lout'.tier.level) >= Rank(lout.tier.level) ]_vars

\* C22: for any thresholds, ordered or not, the level of a non-zero score is
\* that of the first tier among low, medium, high whose maxScore is at least
\* the score, else CRITICAL, whatever critical.maxScore is; with
\* low.max < medium.max < high.max each of LOW, MEDIUM, HIGH, CRITICAL is the
\* level of some score, and the level does not fall when the score rises from
\* a non-zero score to a non-zero score, nor when it rises from a score that
\* is 0 or more (null, the level of 0, below LOW). The step left out is the
\* one from a negative score to 0, which the code takes from the level of
\* the negative score to null.
C22_FirstTierAndMonotonic ==
    /\ [] /\ lscore # 0 => lout.tier.level = FirstTierLevel(lscore, lthresholds)
          /\ Ordered(lthresholds) => AllFourReachable(lthresholds)
    /\ [][ ( /\ Ordered(lthresholds)
             /\ lscore' >= lscore
             /\ \/ lscore # 0 /\ lscore' # 0
                \/ lscore >= 0 )
           => Rank(lout'.tier.level) >= Rank(lout.tier.level) ]_vars

\* thresholds out of order: 250 is above medium.max = 200 and yet LOW, the
\* first tier that holds it; critical.max = 100 plays no part
C22_Witness ==
    /\ lthresholds = UnorderedThresholds
    /\ lscore = 250
    /\ lout.tier.level = "LOW"


(***************************************************************************)
(* Claims about the risk settings cache (checked under SpecSettings)       *)
(***************************************************************************)

\* C9: a fetchRiskSettings call never rejects, and a call whose request
\* threw, whose answer was not parsable or came without success = true has
\* returned the built-in default catalogue and the default thresholds.
C9_FailureFallsBackToDefaults ==
    \A c \in Callers :
        /\ calls[c].pc # "rejected"
        /\ calls[c].outcome \in {"threw", "unparsable", "nosuccess"} =>
              /\ calls[c].pc = "returned"
              /\ calls[c].result =
                    Some([risk_factors |-> RISK_FACTORS,
                          approval_thresholds |-> DefaultThresholds])

\* one caller got the defaults after a rejected fetch, the other after an
\* answer without success
C9_Witness ==
    /\ calls[1].outcome = "threw"
    /\ calls[1].result = Some(DefaultRiskSettings)
    /\ calls[2].outcome = "nosuccess"
    /\ calls[2].result = Some(DefaultRiskSettings)

\* C10: a call made less than CACHE_TTL after the last successful fetch (none
\* cleared since) returns the cached settings without a request; any other
\* call (no successful fetch yet, cleared since, or CACHE_TTL or more old)
\* issues a request.
C10_CacheExpiry ==
    \A c \in Callers :
        calls[c].pc # "idle" =>
            /\ calls[c].requested <=> ~calls[c].fresh
            /\ ~calls[c].requested =>
                  /\ calls[c].pc = "returned"
                  /\ calls[c].outcome = "cache"
                  /\ ~IsNull(calls[c].result)

\* settings fetched at minute 0: caller 1 was served from the cache, and the
\* call of caller 2 exactly CACHE_TTL later has issued a request
C10_Witness ==
    /\ lastSuccess = Some(0)
    /\ now = CACHE_TTL
    /\ calls[1].outcome = "cache"
    /\ calls[2].pc = "fetching"
    /\ calls[2].requested


\* C11: overlapping refreshes. A call that starts while the cache is empty
\* or expired issues its own request, whatever the other calls are doing; a
\* call whose response is processed with success returns the settings of
\* that response; and the cache only ever changes by one response writing
\* its settings together with the time of that moment (or by being
\* cleared), so it holds the pair of the response processed last.
C11_OverlappingRefreshes ==
    [][ /\ \A c \in Callers :
              /\ calls[c].pc \in {"idle", "returned"}
              /\ calls'[c] # calls[c]
              /\ IsNull(cachedSettings) \/ now - cacheTimestamp >= CACHE_TTL
              => calls'[c].pc = "fetching" /\ calls'[c].requested
        /\ \A c \in Callers :
              calls[c].pc = "parsing" /\ calls'[c].outcome = "success" =>
                  /\ calls'[c].result = Some(Val(calls[c].answer).settings)
                  /\ cachedSettings' = calls'[c].result
                  /\ cacheTimestamp' = now
        /\ cachedSettings' # cachedSettings \/ cacheTimestamp' # cacheTimestamp =>
              \/ IsNull(cachedSettings') /\ cacheTimestamp' = 0
              \/ \E c \in Callers :
                    /\ calls[c].pc = "parsing"
                    /\ calls'[c].outcome = "success"
                    /\ cachedSettings' = calls'[c].result
                    /\ cacheTimestamp' = now
      ]_vars

\* two refreshes overlapped around a save: caller 2 got the newer settings
\* and was processed first, caller 1 got the older settings and was processed
\* last, at a later minute; the cache holds the pair caller 1 wrote
C11_Witness ==
    /\ stored = [risk_factors |-> Some(EditedRiskFactors),
                 approval_thresholds |-> Some(CustomThresholds)]
    /\ calls[1].pc = "returned" /\ calls[1].outcome = "success"
    /\ calls[2].pc = "returned" /\ calls[2].outcome = "success"
    /\ calls[1].result =
          Some([risk_factors |-> EditedRiskFactors,
                approval_thresholds |-> DefaultThresholds])
    /\ calls[2].result = Some(SettingsBody)
    /\ cachedSettings = calls[1].result
    /\ cacheTimestamp = now
    /\ now > 0


SettingsFailures == {"threw", "unparsable", "nosuccess"}

\* C28: a fetchRiskSettings call that fails returns the default settings,
\* also when the cache holds expired settings, and writes nothing to the
\* cache: cachedSettings and cacheTimestamp stay as they were (empty stays
\* empty); and a call that starts after a failed one, while the cache is
\* empty or expired, issues a request.
C28_FailureLeavesCache ==
    /\ [](IsNull(lastSuccess) => IsNull(cachedSettings))
    /\ [][ /\ \A c \in Callers :
                ( /\ calls[c].pc \in {"fetching", "parsing"}
                  /\ calls'[c].outcome \in SettingsFailures )
                => /\ calls'[c].pc = "returned"
                   /\ calls'[c].result = Some(DefaultRiskSettings)
                   /\ cachedSettings' = cachedSettings
                   /\ cacheTimestamp' = cacheTimestamp
           /\ \A c \in Callers :
                ( /\ \E d \in Callers :
                        calls[d].pc = "returned" /\ calls[d].outcome \in SettingsFailures
                  /\ calls[c].pc \in {"idle", "returned"}
                  /\ calls'[c] # calls[c]
                  /\ IsNull(cachedSettings) \/ now - cacheTimestamp >= CACHE_TTL )
                => calls'[c].pc = "fetching" /\ calls'[c].requested
         ]_vars

\* the cache holds settings that have expired; the request of caller 1
\* threw and caller 1 got the defaults, the cache is as it was, and the call
\* of caller 2 that followed has issued a request
C28_Witness ==
    /\ cachedSettings = Some(SettingsBody)
    /\ now - cacheTimestamp >= CACHE_TTL
    /\ calls[1].pc = "returned" /\ calls[1].outcome = "threw"
    /\ calls[1].requested /\ ~calls[1].fresh
    /\ calls[1].result = Some(DefaultRiskSettings)
    /\ calls[2].pc = "fetching" /\ calls[2].requested


\* C29 (as claimed): no fetchRiskSettings call is served from the cache
\* settings that a request issued before the last clearRiskSettingsCache
\* has brought.
C29_ClearInvalidatesEarlierFetches ==
    [][ \A c \in Callers :
          ( /\ calls[c].pc \in {"idle", "returned"}
            /\ calls'[c] # calls[c]
            /\ calls'[c].outcome = "cache" )
          => ~cacheStale ]_vars

(***************************************************************************)
(* Further claims about the risk scoring engine (SpecRiskHandler)          *)
(***************************************************************************)

\* the submitted scores that are present, in halves
PresentScores == {Val(SubmittedScores[f]) : f \in {g \in FactorIds : ~IsNull(SubmittedScores[g])}}

\* C20: for integer scores in 1..5 with at least one factor scored, the score
\* calculateRiskScore gives lies between the smallest and the largest present
\* score (so it is exactly v when every present score is v), and the level
\* getRiskLevel gives for the result is null only when no factor is scored.
C20_ScoreWithinPresentScores ==
    (Validated /\ AllScoresInScale) =>
        LET r == Val(Val(riskData).risk_score) IN
        /\ \A v \in PresentScores : (\A w \in PresentScores : v <= w) => 50 * v <= r
        /\ \A v \in PresentScores : (\A w \in PresentScores : w <= v) => r <= 50 * v
        /\ (Val(riskData).risk_level = "") <=> (PresentScores = {})

\* three factors of different weights all scored 4: the score is exactly 4.00
C20_Witness ==
    /\ Validated
    /\ SubmittedScores["risk_project_novelty"] = Some(8)
    /\ SubmittedScores["risk_technical_complexity"] = Some(8)
    /\ SubmittedScores["risk_resource_utilization"] = Some(8)
    /\ Val(riskData).risk_score = Some(400)
    /\ Val(riskData).risk_level = "HIGH"


(***************************************************************************)
(* Claims about enrichOpportunityWithForecast (checked under SpecEnrich)   *)
(***************************************************************************)

\* the probability the weighting uses: forecast?.probability ?? 0
EnrichProbability ==
    IF IsNull(eforecast) THEN NumZero(FALSE) ELSE Val(eforecast).probability

\* the example of the claim: charge_total 10000, provisional_cost_total 6000,
\* probability 50 and no overrides
EnrichExample ==
    /\ eopp.charge_total = Some(NumFromInt(10000))
    /\ eopp.provisional_cost_total = Some(NumFromInt(6000))
    /\ ~IsNull(eforecast)
    /\ Val(eforecast).probability = NumFromInt(50)
    /\ IsNull(Val(eforecast).revenue_override)
    /\ IsNull(Val(eforecast).profit_override)

\* base_profit = charge_total - provisional_cost_total, base_margin =
\* base_profit / charge_total (0 when charge_total is 0), and the example
\* gives base_profit 4000, weighted_revenue 5000 and weighted_profit 2000
EnrichBaseFields(o) ==
    /\ o.base_profit = NumSub(o.charge_total, o.provisional_cost_total)
    /\ NumEq(o.charge_total, NumZero(FALSE)) => o.base_margin = NumZero(FALSE)
    /\ ~NumEq(o.charge_total, NumZero(FALSE)) =>
          o.base_margin = NumDiv(o.base_profit, o.charge_total)
    /\ EnrichExample =>
          /\ o.base_profit = NumFromInt(4000)
          /\ o.weighted_revenue = NumFromInt(5000)
          /\ o.weighted_profit = NumFromInt(2000)

\* C12 (as claimed): the record returned has base_profit = charge_total -
\* provisional_cost_total, base_margin = base_profit / charge_total (0 when
\* charge_total is 0), weighted_revenue = effective_revenue * probability /
\* 100 and weighted_profit = effective_profit * probability / 100, the
\* product taken first and then divided by 100.
C12_WeightedAsProductOver100 ==
    ~IsNull(eout) =>
        LET o == Val(eout) IN
        /\ EnrichBaseFields(o)
        /\ o.weighted_revenue =
              NumDiv(NumMul(o.effective_revenue, EnrichProbability), NumFromInt(100))
        /\ o.weighted_profit =
              NumDiv(NumMul(o.effective_profit, EnrichProbability), NumFromInt(100))

\* C12 (amended): the record returned has base_profit = charge_total -
\* provisional_cost_total, base_margin = base_profit / charge_total (0 when
\* charge_total is 0), weighted_revenue = effective_revenue * (probability /
\* 100) and weighted_profit = effective_profit * (probability / 100), each
\* operation rounded as a double; for charge_total 10000,
\* provisional_cost_total 6000, probability 50 and no overrides that is
\* base_profit 4000, weighted 5000 and 2000.
C12_DerivedFields ==
    ~IsNull(eout) =>
        LET o == Val(eout) IN
        /\ EnrichBaseFields(o)
        /\ o.weighted_revenue =
              NumMul(o.effective_revenue, NumDiv(EnrichProbability, NumFromInt(100)))
        /\ o.weighted_profit =
              NumMul(o.effective_profit, NumDiv(EnrichProbability, NumFromInt(100)))

\* charge_total 10000 and provisional_cost_total 6000 at probability 7, no
\* overrides: the margin is 0.4, the weighted revenue the double next above
\* 700 and the weighted profit 280
C12_Witness ==
    /\ eopp.charge_total = Some(NumFromInt(10000))
    /\ eopp.provisional_cost_total = Some(NumFromInt(6000))
    /\ ~IsNull(eforecast)
    /\ Val(eforecast).probability = NumFromInt(7)
    /\ IsNull(Val(eforecast).revenue_override)
    /\ IsNull(Val(eforecast).profit_override)
    /\ ~IsNull(eout)
    /\ Val(eout).base_profit = NumFromInt(4000)
    /\ Val(eout).base_margin = parseFloat(<<"0", ".", "4">>)
    /\ NumberToString(Val(eout).weighted_revenue)
          = <<"7", "0", "0", ".", "0", "0", "0", "0", "0", "0", "0",
              "0", "0", "0", "0", "0", "1">>
    /\ Val(eout).weighted_profit = NumFromInt(280)

\* C13: effective_revenue is charge_total when there is no forecast or its
\* revenue_override is null, and is the revenue_override whenever one is set,
\* whatever charge_total is and also for an override of 0; effective_profit
\* is the profit_override when set and base_profit otherwise, whatever the
\* revenue override is.
C13_OverridesWin ==
    ~IsNull(eout) =>
        LET o == Val(eout) IN
        /\ (IsNull(eforecast) \/ IsNull(Val(eforecast).revenue_override))
              => o.effective_revenue = o.charge_total
        /\ (~IsNull(eforecast) /\ ~IsNull(Val(eforecast).revenue_override))
              => o.effective_revenue = Val(Val(eforecast).revenue_override)
        /\ (IsNull(eforecast) \/ IsNull(Val(eforecast).profit_override))
              => o.effective_profit = o.base_profit
        /\ (~IsNull(eforecast) /\ ~IsNull(Val(eforecast).profit_override))
              => o.effective_profit = Val(Val(eforecast).profit_override)

\* a revenue override of 0 on a charge_total of 10000, no profit override:
\* effective_revenue is 0 and effective_profit is still the base profit
C13_Witness ==
    /\ ~IsNull(eout)
    /\ ~IsNull(eforecast)
    /\ Val(eforecast).revenue_override = Some(NumFromInt(0))
    /\ IsNull(Val(eforecast).profit_override)
    /\ eopp.provisional_cost_total = Some(NumFromInt(6000))
    /\ Val(eout).charge_total = NumFromInt(10000)
    /\ Val(eout).effective_revenue = NumFromInt(0)
    /\ Val(eout).effective_profit = NumFromInt(4000)

\* all of chars, but for white space around it, is a numeral: a signed
\* StrDecimalLiteral or Infinity
IsNumeral(chars) ==
    LET t == SkipWhiteSpace(chars)
        u == IF t # <<>> /\ Head(t) \in {"-", "+"} THEN Tail(t) ELSE t
        lit == StrDecimalLiteral(u)
    IN  IF StartsWith(u, InfinityWord)
        THEN SkipWhiteSpace(SubSeq(u, Len(InfinityWord) + 1, Len(u))) = <<>>
        ELSE lit.ok /\ SkipWhiteSpace(lit.rest) = <<>>

\* null, undefined or a string that is not a number
Malformed(raw) ==
    IsNull(raw) \/ (IsString(raw) /\ ~IsNumeral(Chars(raw)))

\* C14 (as claimed): a charge_total, provisional_cost_total,
\* predicted_cost_total or actual_cost_total that is null, undefined or a
\* non-numeric string is 0 in the returned record, and so in the fields
\* derived from it.
C14_MalformedMoneyIsZero ==
    ~IsNull(eout) =>
        LET o == Val(eout) IN
        /\ Malformed(eopp.charge_total) =>
              /\ o.charge_total = NumZero(FALSE)
              /\ o.base_margin = NumZero(FALSE)
              /\ o.base_profit = NumSub(NumZero(FALSE), o.provisional_cost_total)
        /\ Malformed(eopp.provisional_cost_total) =>
              /\ o.provisional_cost_total = NumZero(FALSE)
              /\ o.base_profit = o.charge_total
        /\ Malformed(eopp.predicted_cost_total) =>
              o.predicted_cost_total = NumZero(FALSE)
        /\ Malformed(eopp.actual_cost_total) => o.actual_cost_total = NumZero(FALSE)


(***************************************************************************)
(* Claims about the grouped views (SpecGroups)                             *)
(***************************************************************************)

\* the sum of fn[1], ..., fn[n], added in that order
RECURSIVE NumSumTo(_, _)
NumSumTo(fn, n) ==
    IF n = 0 THEN NumZero(FALSE) ELSE NumAdd(NumSumTo(fn, n - 1), fn[n])

\* the sum of a field over the opportunities of the input that are among
\* members, added in the order of the input
SumOf(members, field) ==
    NumSumTo([i \in 1..Len(vopps) |->
                 IF i \in members THEN vopps[i][field] ELSE NumZero(FALSE)],
             Len(vopps))

\* the non-excluded opportunities of the input whose name, read with its
\* fallback, is name
MembersBy(field, fallback, name) ==
    { i \in 1..Len(vopps) :
        /\ ~(~IsNull(vopps[i].forecast) /\ Val(vopps[i].forecast).is_excluded)
        /\ (IF IsNull(vopps[i][field]) \/ Val(vopps[i][field]) = ""
            THEN fallback ELSE Val(vopps[i][field])) = name }

\* groups is the grouping of the non-excluded input by field, sorted
\* descending by weighted_revenue
IsGroupingBy(groups, field, fallback) ==
    /\ \A i, j \in 1..Len(groups) : groups[i].name = groups[j].name => i = j
    /\ \A i \in 1..Len(vopps) :
          ~(~IsNull(vopps[i].forecast) /\ Val(vopps[i].forecast).is_excluded) =>
              \E k \in 1..Len(groups) : i \in MembersBy(field, fallback, groups[k].name)
    /\ \A k \in 1..Len(groups) :
          LET members == MembersBy(field, fallback, groups[k].name) IN
          /\ members # {}
          /\ groups[k].opportunity_count = Cardinality(members)
          /\ groups[k].weighted_revenue = SumOf(members, "weighted_revenue")
    /\ \A i, j \in 1..Len(groups) :
          i < j => NumLeq(groups[j].weighted_revenue, groups[i].weighted_revenue)

\* C15: calculateForecastByOwner groups the non-excluded opportunities by
\* owner_name, a missing or empty name as "Unassigned", and
\* calculateForecastByCustomer by organisation_name, a missing or empty name
\* as "Unknown Customer"; excluded opportunities are in no group and in no
\* count; the groups come in descending order of weighted_revenue.
C15_GroupedAndSorted ==
    /\ ~IsNull(byOwner) => IsGroupingBy(Val(byOwner), "owner_name", "Unassigned")
    /\ ~IsNull(byCustomer) =>
          IsGroupingBy(Val(byCustomer), "organisation_name", "Unknown Customer")

\* Ann's opportunity has the larger pipeline revenue, the one without owner
\* the larger weighted revenue: "Unassigned" comes first; both are customers
\* without a name
C15_Witness ==
    /\ Len(vopps) = 2
    /\ vopps[1].owner_name = Some("Ann")
    /\ vopps[1].effective_revenue = NumFromInt(10000)
    /\ vopps[1].weighted_revenue = NumFromInt(5000)
    /\ vopps[2].owner_name = Some("")
    /\ vopps[2].effective_revenue = NumFromInt(8000)
    /\ vopps[2].weighted_revenue = NumFromInt(8000)
    /\ ~IsNull(byOwner) /\ ~IsNull(byCustomer)
    /\ Len(Val(byOwner)) = 2
    /\ Val(byOwner)[1].name = "Unassigned"
    /\ Val(byOwner)[2].name = "Ann"
    /\ Len(Val(byCustomer)) = 1
    /\ Val(byCustomer)[1].name = "Unknown Customer"
    /\ Val(byCustomer)[1].opportunity_count = 2


(***************************************************************************)
(* Claims about the probability bands (SpecBands)                          *)
(***************************************************************************)

\* the reviewed, non-excluded opportunities of the input
ReviewedIncluded ==
    { i \in 1..Len(vopps) :
        ~IsNull(vopps[i].forecast) /\ ~Val(vopps[i].forecast).is_excluded }

\* C16: the result is the four bands 0-25, 26-50, 51-75, 76-100 in that
\* order; the count of each band is the number of reviewed, non-excluded
\* opportunities whose probability lies in its range, both edges included
\* (75 in 51-75%, 76 in 76-100%); excluded and unreviewed opportunities are
\* in no band, and the counts add up to the number of reviewed, non-excluded
\* opportunities.
C16_OneBandEach ==
    ~IsNull(byProbabilityBand) =>
        LET b == Val(byProbabilityBand)
            edges == << <<0, 25>>, <<26, 50>>, <<51, 75>>, <<76, 100>> >>
        IN  /\ Len(b) = 4
            /\ <<b[1].band, b[2].band, b[3].band, b[4].band>> =
                  <<"0-25%", "26-50%", "51-75%", "76-100%">>
            /\ \A k \in 1..4 :
                  b[k].count =
                      Cardinality({i \in ReviewedIncluded :
                          \E q \in edges[k][1]..edges[k][2] :
                              Val(vopps[i].forecast).probability = NumFromInt(q)})
            /\ b[1].count + b[2].count + b[3].count + b[4].count =
                  Cardinality(ReviewedIncluded)

\* probabilities 75 and 76 were placed on the two sides of the seam
C16_Witness ==
    /\ Len(vopps) = 2
    /\ ~IsNull(vopps[1].forecast) /\ ~IsNull(vopps[2].forecast)
    /\ ~Val(vopps[1].forecast).is_excluded /\ ~Val(vopps[2].forecast).is_excluded
    /\ Val(vopps[1].forecast).probability = NumFromInt(75)
    /\ Val(vopps[2].forecast).probability = NumFromInt(76)
    /\ ~IsNull(byProbabilityBand)
    /\ Val(byProbabilityBand)[3].count = 1
    /\ Val(byProbabilityBand)[4].count = 1


(***************************************************************************)
(* Claims about the time series (SpecSeries)                               *)
(***************************************************************************)

\* the opportunities of the input that start in the period of entry e and
\* are of kind: "excluded", "unreviewed", "commit" or "upside"
StartingIn(e, kind) ==
    { i \in 1..Len(vopps) :
        /\ ~IsNull(vopps[i].starts_at)
        /\ PeriodKey(Val(vopps[i].starts_at), groupByWeek) = e.period
        /\ kind =
             ( IF ~IsNull(vopps[i].forecast) /\ Val(vopps[i].forecast).is_excluded
               THEN "excluded"
               ELSE IF IsNull(vopps[i].forecast) THEN "unreviewed"
               ELSE IF Val(vopps[i].forecast).is_commit THEN "commit"
               ELSE "upside" ) }

\* C17: every series of every period is the sum over the opportunities of
\* that period of one kind: unreviewed is the unweighted charge_total and
\* base_profit of those without forecast, commit the weighted revenue and
\* profit of the reviewed ones with is_commit, upside those of the other
\* reviewed ones; excluded opportunities and opportunities without a start
\* add to nothing, and every period of the output is the period of some
\* opportunity with a start.
C17_SeriesByKind ==
    ~IsNull(timeSeries) =>
        \A k \in 1..Len(Val(timeSeries)) :
            LET e == Val(timeSeries)[k] IN
            /\ e.unreviewed_revenue = SumOf(StartingIn(e, "unreviewed"), "charge_total")
            /\ e.unreviewed_profit = SumOf(StartingIn(e, "unreviewed"), "base_profit")
            /\ e.commit_revenue = SumOf(StartingIn(e, "commit"), "weighted_revenue")
            /\ e.commit_profit = SumOf(StartingIn(e, "commit"), "weighted_profit")
            /\ e.upside_revenue = SumOf(StartingIn(e, "upside"), "weighted_revenue")
            /\ e.upside_profit = SumOf(StartingIn(e, "upside"), "weighted_profit")
            /\ \E kind \in {"excluded", "unreviewed", "commit", "upside"} :
                  StartingIn(e, kind) # {}

\* an excluded commit opportunity and an unreviewed one start in the same
\* month: the period holds the unweighted 8000 and 2000 of the second only
C17_Witness ==
    /\ ~groupByWeek
    /\ Len(vopps) = 2
    /\ vopps[1].starts_at = Some([y |-> 2024, m |-> 12, d |-> 23])
    /\ ~IsNull(vopps[1].forecast) /\ Val(vopps[1].forecast).is_excluded
    /\ vopps[2].starts_at = Some([y |-> 2024, m |-> 12, d |-> 30])
    /\ IsNull(vopps[2].forecast)
    /\ ~IsNull(timeSeries)
    /\ Len(Val(timeSeries)) = 1
    /\ Val(timeSeries)[1].unreviewed_revenue = NumFromInt(8000)
    /\ Val(timeSeries)[1].unreviewed_profit = NumFromInt(2000)
    /\ Val(timeSeries)[1].commit_revenue = NumFromInt(0)

\* C18 (as claimed): the output is in ascending order of the period key, and
\* that order is chronological for week grouping as for month grouping: of
\* two opportunities in different periods, the period of the one that starts
\* earlier comes first.
C18_PeriodsChronological ==
    ~IsNull(timeSeries) =>
        LET out == Val(timeSeries)
            pos(i) == CHOOSE k \in 1..Len(out) :
                          out[k].period = PeriodKey(Val(vopps[i].starts_at), groupByWeek)
            day(i) == DaysFromCivil(Val(vopps[i].starts_at).y,
                                    Val(vopps[i].starts_at).m,
                                    Val(vopps[i].starts_at).d)
        IN  /\ \A j, k \in 1..Len(out) :
                  j < k => KeyLeq(out[j].period, out[k].period)
            /\ \A i, j \in 1..Len(vopps) :
                  ( /\ ~IsNull(vopps[i].starts_at)
                    /\ ~IsNull(vopps[j].starts_at)
                    /\ pos(i) # pos(j)
                    /\ day(i) < day(j) ) => pos(i) < pos(j)


\* C26 (as claimed): under week grouping the opportunities of one period
\* start in the same Monday-to-Sunday week, and the label of the period is
\* the week start of each of them.
C26_OneWeekPerPeriod ==
    (~IsNull(timeSeries) /\ groupByWeek) =>
        /\ \A i, j \in 1..Len(vopps) :
              ( /\ ~IsNull(vopps[i].starts_at)
                /\ ~IsNull(vopps[j].starts_at)
                /\ PeriodKey(Val(vopps[i].starts_at), TRUE)
                      = PeriodKey(Val(vopps[j].starts_at), TRUE) )
              => getWeekStartDate(Val(vopps[i].starts_at))
                    = getWeekStartDate(Val(vopps[j].starts_at))
        /\ \A k \in 1..Len(Val(timeSeries)) : \A i \in 1..Len(vopps) :
              ( /\ ~IsNull(vopps[i].starts_at)
                /\ PeriodKey(Val(vopps[i].starts_at), TRUE) = Val(timeSeries)[k].period )
              => Val(timeSeries)[k].periodLabel = formatWeekLabel(Val(vopps[i].starts_at))


\* C27 (as claimed): the time series of a list is the time series of the
\* list without its excluded opportunities.
C27_ExcludedHaveNoEffect ==
    ~IsNull(timeSeries) =>
        Val(timeSeries) =
            calculateForecastTimeSeries(
                SelectSeq(vopps, LAMBDA o :
                    ~(~IsNull(o.forecast) /\ Val(o.forecast).is_excluded)),
                groupByWeek)


(***************************************************************************)
(* Claims about the webhook metrics (SpecWebhook)                          *)
(***************************************************************************)

\* C19 (as claimed): whenever getMetrics is called, successfulEvents counts
\* every event whose rules the handler has seen complete without error,
\* failedEvents every event for which a rule threw, and totalEvents counts
\* at least both.
C19_MetricsReportOutcomes ==
    [][ GetMetrics =>
          LET m == Val(metrics')
              handled == {r \in Requests : wpc[r] = "done" /\ wres[r] = 200}
              succeeded == {r \in handled : Val(wevent[r]).processed}
              failed == {r \in handled : ~IsNull(Val(wevent[r]).error)}
          IN  /\ m.successfulEvents = Cardinality(succeeded)
              /\ m.failedEvents = Cardinality(failed)
              /\ m.totalEvents >= Cardinality(succeeded) + Cardinality(failed) ]_vars

\* the sum of the probabilities of the members, an opportunity without
\* forecast counting 0
ProbabilitySum(members) ==
    NumSumTo([i \in 1..Len(vopps) |->
                 IF i \in members /\ ~IsNull(vopps[i].forecast)
                 THEN Val(vopps[i].forecast).probability ELSE NumZero(FALSE)],
             Len(vopps))

\* C21: in the owner groups and in the customer groups, avg_probability is
\* the sum of the probabilities of the opportunities counted in the group
\* divided by the number of those opportunities; an opportunity without
\* forecast is counted, with probability 0.
C21_AverageProbability ==
    /\ ~IsNull(byOwner) =>
          \A k \in 1..Len(Val(byOwner)) :
              LET members == MembersBy("owner_name", "Unassigned", Val(byOwner)[k].name)
              IN  /\ Val(byOwner)[k].opportunity_count = Cardinality(members)
                  /\ Val(byOwner)[k].avg_probability =
                        NumDiv(ProbabilitySum(members),
                               NumFromInt(Cardinality(members)))
    /\ ~IsNull(byCustomer) =>
          \A k \in 1..Len(Val(byCustomer)) :
              LET members == MembersBy("organisation_name", "Unknown Customer",
                                       Val(byCustomer)[k].name)
              IN  /\ Val(byCustomer)[k].opportunity_count = Cardinality(members)
                  /\ Val(byCustomer)[k].avg_probability =
                        NumDiv(ProbabilitySum(members),
                               NumFromInt(Cardinality(members)))

\* Ann owns an opportunity without forecast and one at 50 %: her average is
\* 25, and so is that of their common customer
C21_Witness ==
    /\ Len(vopps) = 2
    /\ vopps[1].owner_name = Some("Ann") /\ vopps[2].owner_name = Some("Ann")
    /\ IsNull(vopps[1].forecast)
    /\ ~IsNull(vopps[2].forecast)
    /\ Val(vopps[2].forecast).probability = NumFromInt(50)
    /\ ~Val(vopps[2].forecast).is_excluded
    /\ ~IsNull(byOwner) /\ ~IsNull(byCustomer)
    /\ Len(Val(byOwner)) = 1
    /\ Val(byOwner)[1].opportunity_count = 2
    /\ Val(byOwner)[1].avg_probability = NumFromInt(25)
    /\ Val(byCustomer)[1].avg_probability = NumFromInt(25)


(***************************************************************************)
(* Claims about the rules engine (SpecRules)                               *)
(***************************************************************************)

\* the trigger of rule matches event: the action type of the event is among
\* actionTypes when some are given, and some entry of statusChanges, when
\* some are given, names the new status of the event and, if it names a
\* previous status, that of the event
TriggerMatches(rule, event) ==
    /\ (~IsNull(rule.actionTypes) /\ Val(rule.actionTypes) # <<>>) =>
          \E k \in 1..Len(Val(rule.actionTypes)) :
              Val(rule.actionTypes)[k] = event.actionType
    /\ (~IsNull(rule.statusChanges) /\ Val(rule.statusChanges) # <<>>) =>
          \E k \in 1..Len(Val(rule.statusChanges)) :
              LET change == Val(rule.statusChanges)[k] IN
              /\ event.newStatus = Some(change.to)
              /\ change.from \in {Null, Some(""), event.previousStatus}

\* the rules registered at the call that are enabled and match the event,
\* in registration order
RulesToRun ==
    SelectSeq(xrules, LAMBDA r : r.enabled /\ TriggerMatches(r, Val(xevent)))

\* C23: the actions executeRules has started are, in order, those of the
\* rules registered at the call that are enabled and whose trigger matches
\* the event; an action starts only when every earlier one has resolved, so
\* at most one is pending; the method returns when all of them have run, and
\* when one rejects the method throws and no later action starts.
C23_RulesRunInOrder ==
    xpc # "idle" =>
        /\ Len(xlog) <= Len(RulesToRun)
        /\ \A k \in 1..Len(xlog) : xlog[k] = RulesToRun[k].id
        /\ \A k \in 1..(Len(xlog) - 1) : RulesToRun[k].action = "resolves"
        /\ Cardinality(xpending) <= 1
        /\ xpc = "awaiting" => Len(xlog) > 0 /\ xpending = {xlog[Len(xlog)]}
        /\ xpc = "returned" =>
              /\ Len(xlog) = Len(RulesToRun)
              /\ xpending = {}
              /\ \A k \in 1..Len(xlog) : RulesToRun[k].action = "resolves"
        /\ xpc = "threw" =>
              /\ Len(xlog) > 0
              /\ RulesToRun[Len(xlog)].action = "rejects"
              /\ xpending = {}

\* three rules match an update from provisional to reserved; the second
\* rejects and the third, registered after it, never starts
C23_Witness ==
    /\ xpc = "threw"
    /\ xlog = <<"log-status-changes", "from-provisional">>
    /\ Len(RulesToRun) = 3
    /\ RulesToRun[3].id = "on-reserved"


(***************************************************************************)
(* Claims about the event store called directly (SpecStore)                *)
(***************************************************************************)

\* the first n elements of seq, all of them when it has fewer
NewestOf(seq, n) == SubSeq(seq, 1, IF n < Len(seq) THEN n ELSE Len(seq))

GroupTotal(groups, field) ==
    NumSumTo([k \in 1..Len(groups) |-> groups[k][field]], Len(groups))

\* the sum of opportunity_count over the groups
GroupCount(groups) ==
    SumTo([k \in 1..Len(groups) |-> groups[k].opportunity_count], Len(groups))

\* the non-excluded opportunities of the input
Included ==
    {i \in 1..Len(vopps) :
        ~(~IsNull(vopps[i].forecast) /\ Val(vopps[i].forecast).is_excluded)}

\* the money of groups agrees with the summary of the same opportunities
AgreesWithSummary(groups) ==
    LET s == calculateForecastSummary(vopps)
    IN  /\ GroupTotal(groups, "weighted_revenue") = s.weighted_revenue
        /\ GroupTotal(groups, "pipeline_revenue") =
              NumAdd(s.total_pipeline_revenue, s.unreviewed_revenue)

\* in each group commit_revenue + upside_revenue is weighted_revenue
CommitPlusUpside(groups) ==
    \A k \in 1..Len(groups) :
        NumAdd(groups[k].commit_revenue, groups[k].upside_revenue)
            = groups[k].weighted_revenue

\* x is a whole number below 2^40 in size: additions of such amounts are
\* exact as long as the sum stays below 2^53
IsWholeAmount(x) == x.k = "num" /\ x.e >= 0 /\ MpBits(x.m) + x.e <= 40

\* the amounts the views add up are whole numbers
WholeAmounts ==
    \A i \in Included :
        /\ IsWholeAmount(vopps[i].charge_total)
        /\ IsWholeAmount(vopps[i].effective_revenue)
        /\ IsWholeAmount(vopps[i].weighted_revenue)

\* C25 (as claimed): in each owner group commit_revenue + upside_revenue is
\* weighted_revenue; over the owner groups, and over the customer groups,
\* the weighted_revenue sums to that of the summary of the same input, the
\* opportunity_count to the number of non-excluded opportunities, and the
\* pipeline_revenue to total_pipeline_revenue + unreviewed_revenue of the
\* summary.
C25_GroupsEqualSummary ==
    /\ ~IsNull(byOwner) =>
          /\ CommitPlusUpside(Val(byOwner))
          /\ GroupCount(Val(byOwner)) = Cardinality(Included)
          /\ AgreesWithSummary(Val(byOwner))
    /\ ~IsNull(byCustomer) =>
          /\ GroupCount(Val(byCustomer)) = Cardinality(Included)
          /\ AgreesWithSummary(Val(byCustomer))

\* C25 (amended): over the owner groups, and over the customer groups, the
\* opportunity_count sums to the number of non-excluded opportunities; and
\* when the charge, effective and weighted revenue of every non-excluded
\* opportunity is a whole number (so that no addition rounds), in each owner
\* group commit_revenue + upside_revenue is weighted_revenue, the
\* weighted_revenue of the groups sums to that of the summary of the same
\* input and their pipeline_revenue to total_pipeline_revenue +
\* unreviewed_revenue of the summary.
C25_GroupsAgreeWithSummary ==
    /\ ~IsNull(byOwner) =>
          /\ GroupCount(Val(byOwner)) = Cardinality(Included)
          /\ WholeAmounts =>
                /\ CommitPlusUpside(Val(byOwner))
                /\ AgreesWithSummary(Val(byOwner))
    /\ ~IsNull(byCustomer) =>
          /\ GroupCount(Val(byCustomer)) = Cardinality(Included)
          /\ WholeAmounts => AgreesWithSummary(Val(byCustomer))

\* an opportunity without forecast, a commit one at 50 % and an upside one
\* at 100 %: the groups hold 26000 of pipeline, 18000 of it in the summary
\* pipeline and 8000 unreviewed
C25_Witness ==
    /\ Len(vopps) = 3
    /\ WholeAmounts
    /\ IsNull(vopps[1].forecast) /\ vopps[1].charge_total = NumFromInt(8000)
    /\ ~IsNull(vopps[2].forecast) /\ Val(vopps[2].forecast).is_commit
    /\ ~Val(vopps[2].forecast).is_excluded
    /\ vopps[2].effective_revenue = NumFromInt(10000)
    /\ vopps[2].weighted_revenue = NumFromInt(5000)
    /\ ~IsNull(vopps[3].forecast) /\ ~Val(vopps[3].forecast).is_commit
    /\ vopps[3].weighted_revenue = NumFromInt(8000)
    /\ ~IsNull(byOwner) /\ ~IsNull(byCustomer)
    /\ Len(Val(byOwner)) = 2
    /\ GroupTotal(Val(byOwner), "pipeline_revenue") = NumFromInt(26000)
    /\ GroupTotal(Val(byCustomer), "pipeline_revenue") = NumFromInt(26000)
    /\ calculateForecastSummary(vopps).total_pipeline_revenue = NumFromInt(18000)
    /\ calculateForecastSummary(vopps).unreviewed_revenue = NumFromInt(8000)


(***************************************************************************)
(* Claims about OpportunitySync (SpecSync)                                 *)
(***************************************************************************)

\* the sync_metadata row of the run
SyncRow == syncMetadata[Val(Val(sync).syncId)]

\* the opportunities given to upsertOpportunity are the fetched ones, once
\* each and in the order of the fetched list; all of them when the loop is
\* over
AttemptedInOrder ==
    ~IsNull(sync)
    => /\ Val(sync).attempted =
              SubSeq(Val(sync).opportunities, 1, Len(Val(sync).attempted))
       /\ Val(sync).pc = "completing"
              => Val(sync).attempted = Val(sync).opportunities
       /\ ~IsNull(Val(sync).result) /\ Val(Val(sync).result).success
              => Val(sync).attempted = Val(sync).opportunities

\* whatever the upsert of an opportunity does, the loop goes on to the next
\* opportunity, or past the last one to the UPDATE that completes the run
UpsertGoesOn ==
    [][ ~IsNull(sync) /\ Val(sync).pc = "upserting" /\ sync' # sync
        => /\ Val(sync').attempted =
                  Append(Val(sync).attempted,
                         Val(sync).opportunities[Val(sync).i])
           /\ Val(sync').pc =
                  IF Val(sync).i = Len(Val(sync).opportunities)
                  THEN "completing" ELSE "upserting" ]_vars

\* a run that returned success = true accounts for every fetched
\* opportunity, in its result and in its row, which is 'completed'
SuccessAccounts ==
    ~IsNull(sync) /\ ~IsNull(Val(sync).result) /\ Val(Val(sync).result).success
    => LET res == Val(Val(sync).result)
       IN  /\ res.recordsSynced + res.recordsFailed = Len(Val(sync).opportunities)
           /\ SyncRow.status = "completed"
           /\ SyncRow.records_synced = res.recordsSynced
           /\ SyncRow.records_failed = res.recordsFailed

\* a run whose fetch failed ends with its row 'failed' and a result with
\* success = false
FetchFailureRecorded ==
    ~IsNull(sync) /\ Val(sync).error = "fetch"
        /\ Val(sync).pc \in {"returned", "rejected"}
    => /\ SyncRow.status = "failed"
       /\ ~IsNull(Val(sync).result)
       /\ ~Val(Val(sync).result).success

\* the row of a run leaves 'running' only for 'completed' or 'failed', and
\* a row that has left 'running' does not change
RowMoves ==
    [][ \A k \in DOMAIN syncMetadata :
          syncMetadata'[k] # syncMetadata[k]
          => /\ syncMetadata[k].status = "running"
             /\ syncMetadata'[k].status \in {"completed", "failed"} ]_vars

\* C30 (as claimed): in initialSync and incrementalSync a failing upsert
\* does not stop the run, every fetched opportunity is attempted once in
\* order, a run that returns success = true has recordsSynced +
\* recordsFailed = number of fetched opportunities and its sync_metadata row
\* has moved from 'running' to 'completed' with those counts, and a run
\* whose fetch fails has its row moved from 'running' to 'failed' and a
\* result with success = false.
C30_SyncRunAccounting ==
    /\ [](AttemptedInOrder /\ SuccessAccounts /\ FetchFailureRecorded)
    /\ UpsertGoesOn
    /\ RowMoves

\* what holds of every run: everything above but the end of a run whose
\* fetch failed
SyncRunAccountingKept ==
    /\ [](AttemptedInOrder /\ SuccessAccounts)
    /\ UpsertGoesOn
    /\ RowMoves

\* a run with a failed upsert followed by a successful one has returned
\* success = true
RunWithFailedUpsert ==
    /\ ~IsNull(sync)
    /\ Val(sync).pc = "returned"
    /\ Val(Val(sync).result).success
    /\ Val(sync).recordsFailed >= 1
    /\ Val(sync).recordsSynced >= 1
    /\ Val(sync).opportunities[1] \notin opportunitiesTable

====
